---- MODULE Spec2Model ----
(***************************************************************************)
(* LinguaLoop content pipeline: the Test Generation Orchestrator (queue    *)
(* consumption, per-difficulty generation, queue status updates), the      *)
(* Cultural Gatekeeper (verdict parsing, short-circuit), and the Topic     *)
(* Generation Orchestrator with the Novelty Archivist.                     *)
(*                                                                         *)
(* The specifications of the module:                                       *)
(*   Spec           - overlapping executions of TestGenerationOrchestrator *)
(*   SpecSolo       - one execution of TestGenerationOrchestrator          *)
(*   SpecGate       - one GatekeeperAgent.validate_for_all_languages call  *)
(*   SpecTopic      - overlapping executions of                            *)
(*                    TopicGenerationOrchestrator                          *)
(*   SpecTopicSolo  - one execution of TopicGenerationOrchestrator         *)
(*   SpecSelect     - category selection under cooldown                    *)
(*   SpecBoundary   - one boundary call under its retry policy             *)
(*   SpecExplorer   - one ExplorerAgent.generate_candidates call           *)
(*   SpecGeneration - one _generate_test call                              *)
(*   SpecValidator  - one QuestionValidator.validate_all_questions call    *)
(*   SpecParser     - one QuestionGenerator._parse_question_response call  *)
(*   SpecVoice      - one AudioSynthesizer.select_voice call               *)
(*   SpecTopicEntry - run_topic_generation.main over one execution         *)
(*   SpecFetch      - one execution of TestGenerationOrchestrator over a   *)
(*                    queue in any state                                   *)
(*   SpecTopicLater - one execution of TopicGenerationOrchestrator over    *)
(*                    the topic store an earlier execution left            *)
(***************************************************************************)
EXTENDS Integers, Sequences, FiniteSets, TLC

\* ------------------------------------------------------------------------
\* Bounds
\* ------------------------------------------------------------------------
NumRuns == 2
MaxItems == 2
MaxLangs == 4
MaxThreshold == 3
NumTopicRuns == 2
MaxCandidates == 3
NumCategories == 2
NumLanguages == 4
MaxTime == 1
MaxFails == 4
MaxResponseItems == 2
MaxQuestions == 3
MaxVoices == 3
\* TestGenConfig.batch_size (TEST_GEN_BATCH_SIZE; the default is 50)
batch_size == 2
\* TopicGenConfig.daily_topic_quota (TOPIC_DAILY_QUOTA; the default is 5)
daily_topic_quota == 2
\* categories.cooldown_days of the modelled categories, in clock ticks
cooldown_days == 1
\* TopicGenConfig.gatekeeper_short_circuit_threshold
\* (TOPIC_GATEKEEPER_SHORT_CIRCUIT; the default is 3)
gatekeeper_short_circuit_threshold == 2

\* ------------------------------------------------------------------------
\* Program constants
\* ------------------------------------------------------------------------
\* TestGenConfig.target_difficulties default
target_difficulties == <<4, 6, 9>>
\* number of type codes in one question distribution
questions_per_test == 5
\* _generate_test: "if len(valid_questions) < 3"
min_valid_questions == 3
\* tenacity stop_after_attempt(3)
stop_after_attempt == 3
\* _validate_candidate: "if len(item.get('concept', '')) < 10"
min_concept_length == 10

\* _validate_structure: "len(q_text.strip()) < 5"
min_question_length == 5
\* _validate_structure: "if len(choices) != 4"
num_choices == 4
\* _check_overlap: threshold = 0.65, in hundredths
overlap_threshold == 65

\* TopicGenConfig.similarity_threshold, in hundredths (0.85)
similarity_threshold == 85

Runs == 1..NumRuns
Items == 1..MaxItems
DiffPos == 1..Len(target_difficulties)

VARIABLES
    \* ---- relational store, test generation side ----
    production_queue,      \* item id -> [status, tests_generated, error_log]
    tests,                 \* rows of table tests
    questions,             \* rows of table questions (one entry per test)
    test_skill_ratings,    \* rows of table test_skill_ratings (per test)
    test_generation_runs,  \* number of rows of table test_generation_runs
    \* ---- executions of the test orchestrator ----
    orch,                  \* run -> local state of that execution
    claimed,               \* item -> runs whose mark_queue_processing succeeded
    \* ---- gatekeeper ----
    gate,
    \* ---- topic generation ----
    topics,
    topic_queue,
    categories,
    topic_generation_runs,
    torch,
    now,                   \* the wall clock, in ticks
    \* ---- agents on their own ----
    boundary,              \* one boundary call under its retry policy
    explorer,              \* one ExplorerAgent.generate_candidates call
    validator,             \* one QuestionValidator.validate_all_questions call
    generation,            \* one _generate_test call
    parser,                \* one QuestionGenerator._parse_question_response call
    voice                  \* one AudioSynthesizer.select_voice call

testVars  == <<production_queue, tests, questions, test_skill_ratings,
               test_generation_runs, orch, claimed>>
gateVars  == <<gate>>
topicVars == <<topics, topic_queue, categories, topic_generation_runs, torch,
               now>>
vars == <<production_queue, tests, questions, test_skill_ratings,
          test_generation_runs, orch, claimed, gate,
          topics, topic_queue, categories, topic_generation_runs, torch, now,
          boundary, explorer, validator, generation, parser, voice>>
agentVars == <<boundary, explorer, validator, generation, parser, voice>>

\* ========================================================================
\* Test generation: pure parts
\* ========================================================================

\* A call that Python can bind to the callee's signature.
\* orchestrator.py passes slug=... to generate_and_upload, whose parameters
\* are (text, file_id, voice, speed, model): every attempt raises TypeError.
AudioCallBinds == FALSE

\* orchestrator.py builds GeneratedTest(slug, language_id, topic_id,
\* difficulty, transcript, gen_user, initial_elo); the dataclass also
\* requires id, language_name, topic_name and audio_url: TypeError.
TestRowBinds == FALSE

\* tenacity @retry(stop_after_attempt(3), reraise=True): fails is the number
\* of consecutive failing attempts the callee would produce.  TRUE: the call
\* returns; FALSE: the last exception is re-raised.
RetryCall(fails) == fails < stop_after_attempt

\* AudioSynthesizer.generate_and_upload as called by _generate_test
generate_and_upload(fails) ==
    IF AudioCallBinds THEN RetryCall(fails) ELSE RetryCall(stop_after_attempt)

\* Variant: both calls bind to their callees and no insert fails.
generate_test_binds(dry_run, prose_ok, n_valid, audio_fails, db) ==
    IF ~prose_ok \/ n_valid < min_valid_questions
    THEN [success |-> FALSE, audio |-> "none", rows |-> {}, n_questions |-> 0]
    ELSE IF dry_run
    THEN [success |-> TRUE, audio |-> "none", rows |-> {}, n_questions |-> 0]
    ELSE IF ~RetryCall(audio_fails)
    THEN [success |-> FALSE, audio |-> "failed", rows |-> {}, n_questions |-> 0]
    ELSE [success |-> TRUE, audio |-> "ok",
          rows |-> {"test", "questions", "ratings"}, n_questions |-> n_valid]

\* Variant: the test row is inserted before the audio call.
generate_test_row_first(dry_run, prose_ok, n_valid, audio_fails, db) ==
    IF ~prose_ok \/ n_valid < min_valid_questions
    THEN [success |-> FALSE, audio |-> "none", rows |-> {}, n_questions |-> 0]
    ELSE IF dry_run
    THEN [success |-> TRUE, audio |-> "none", rows |-> {}, n_questions |-> 0]
    ELSE [success |-> FALSE, audio |-> "failed", rows |-> {"test"},
          n_questions |-> 0]

\* Variant: the audio and persistence steps do not test the dry-run flag.
generate_test_flag_ignored(dry_run, prose_ok, n_valid, audio_fails, db) ==
    IF ~prose_ok \/ n_valid < min_valid_questions
    THEN [success |-> FALSE, audio |-> "none", rows |-> {}, n_questions |-> 0]
    ELSE IF ~generate_and_upload(audio_fails)
    THEN [success |-> FALSE, audio |-> "failed", rows |-> {}, n_questions |-> 0]
    ELSE [success |-> FALSE, audio |-> "ok", rows |-> {}, n_questions |-> 0]

\* Variant: the count of valid questions is tested after the audio step.
generate_test_late_check(dry_run, prose_ok, n_valid, audio_fails, db) ==
    IF ~prose_ok
    THEN [success |-> FALSE, audio |-> "none", rows |-> {}, n_questions |-> 0]
    ELSE IF dry_run
    THEN [success |-> n_valid >= min_valid_questions, audio |-> "none",
          rows |-> {}, n_questions |-> 0]
    ELSE IF ~generate_and_upload(audio_fails)
    THEN [success |-> FALSE, audio |-> "failed", rows |-> {}, n_questions |-> 0]
    ELSE [success |-> FALSE, audio |-> "ok", rows |-> {}, n_questions |-> 0]

\* TestGenerationOrchestrator._generate_test, as a function of the outcomes
\* of the calls it makes.
\*   prose_ok    : everything up to and including generate_prose returned
\*   n_valid     : len(valid_questions)
\*   audio_fails : failing attempts of the TTS/upload call
\*   db          : which insert raises ("none", "test", "questions", "ratings")
\* Result: returned True or raised; what happened to audio; rows inserted.
generate_test(dry_run, prose_ok, n_valid, audio_fails, db) ==
    IF ~prose_ok
    THEN [success |-> FALSE, audio |-> "none", rows |-> {}, n_questions |-> 0]
    ELSE IF n_valid < min_valid_questions
    THEN [success |-> FALSE, audio |-> "none", rows |-> {}, n_questions |-> 0]
    ELSE IF dry_run
    THEN [success |-> TRUE, audio |-> "none", rows |-> {}, n_questions |-> 0]
    ELSE IF ~generate_and_upload(audio_fails)
    THEN [success |-> FALSE, audio |-> "failed", rows |-> {}, n_questions |-> 0]
    ELSE IF ~TestRowBinds \/ db = "test"
    THEN [success |-> FALSE, audio |-> "ok", rows |-> {}, n_questions |-> 0]
    ELSE IF db = "questions"
    THEN [success |-> FALSE, audio |-> "ok", rows |-> {"test"},
          n_questions |-> 0]
    ELSE IF db = "ratings"
    THEN [success |-> FALSE, audio |-> "ok", rows |-> {"test", "questions"},
          n_questions |-> n_valid]
    ELSE [success |-> TRUE, audio |-> "ok",
          rows |-> {"test", "questions", "ratings"}, n_questions |-> n_valid]

\* Everything one call of _generate_test can do, over all outcomes of the
\* calls it makes.
GenerateTestResults(dry_run) ==
    {generate_test(dry_run, prose_ok, n_valid, audio_fails, db) :
        prose_ok \in BOOLEAN, n_valid \in 0..questions_per_test,
        audio_fails \in 0..stop_after_attempt,
        db \in {"none", "test", "questions", "ratings"}}

DryResults == GenerateTestResults(TRUE)
LiveResults == GenerateTestResults(FALSE)

\* Variant: the counter is advanced for every attempted difficulty.
count_success_always(tests_generated, success) == tests_generated + 1

\* _process_queue_item: "if success: tests_generated += 1"
count_success(tests_generated, success) ==
    IF success THEN tests_generated + 1 ELSE tests_generated

\* Variant: no per-difficulty try/except, an exception ends the loop.
next_difficulty_abort(dpos, raised) ==
    IF raised THEN Len(target_difficulties) + 1 ELSE dpos + 1

\* _process_queue_item: the per-difficulty try/except; an exception in
\* _generate_test is logged and the loop goes on with the next difficulty.
\* Result: the next position of the loop (past the end: the loop is over).
next_difficulty(dpos, raised) == dpos + 1

\* get_pending_queue_items: status pending, active language, ordered by
\* created_at (item ids are in creation order), limited.
RECURSIVE pending_prefix_any_language(_, _, _)
pending_prefix_any_language(q, i, limit) ==
    IF i > MaxItems \/ limit = 0 THEN <<>>
    ELSE IF q[i].status = "pending"
         THEN <<i>> \o pending_prefix_any_language(q, i + 1, limit - 1)
         ELSE pending_prefix_any_language(q, i + 1, limit)

\* Variant: the language of an item is not looked at.
get_pending_queue_items_any_language(q, limit) ==
    pending_prefix_any_language(q, 1, limit)

RECURSIVE unsettled_prefix(_, _, _)
unsettled_prefix(q, i, limit) ==
    IF i > MaxItems \/ limit = 0 THEN <<>>
    ELSE IF q[i].status \in {"pending", "processing"} /\ q[i].language_active
         THEN <<i>> \o unsettled_prefix(q, i + 1, limit - 1)
         ELSE unsettled_prefix(q, i + 1, limit)

\* Variant: items in processing are fetched again.
get_pending_queue_items_unsettled(q, limit) == unsettled_prefix(q, 1, limit)

RECURSIVE pending_prefix(_, _, _)
pending_prefix(q, i, limit) ==
    IF i > MaxItems \/ limit = 0 THEN <<>>
    ELSE IF q[i].status = "pending" /\ q[i].language_active
         THEN <<i>> \o pending_prefix(q, i + 1, limit - 1)
         ELSE pending_prefix(q, i + 1, limit)

get_pending_queue_items(q, limit) == pending_prefix(q, 1, limit)

\* update_queue_item_status: unconditional update of the row with that id;
\* error_log is written only when given.
update_queue_item_status(q, i, status_code, n, error_log) ==
    [q EXCEPT ![i] = [@ EXCEPT
                        !.status = status_code,
                        !.tests_generated = n,
                        !.error_log = IF error_log THEN TRUE ELSE @]]

mark_queue_processing(q, i) == update_queue_item_status(q, i, "processing", 0, FALSE)
mark_queue_completed(q, i, n) == update_queue_item_status(q, i, "active", n, FALSE)
mark_queue_failed(q, i) == update_queue_item_status(q, i, "rejected", 0, TRUE)

\* ========================================================================
\* Test generation: executions
\* ========================================================================

NoOutcome == [d \in DiffPos |-> "none"]

OrchInit(dry) ==
    [pc |-> "idle", mode |-> "run", dry_run |-> dry,
     \* TEST_GEN_BATCH_SIZE of the execution
     batch_size |-> batch_size,
     batch |-> <<>>, cur |-> 0,
     dpos |-> 0, tests_generated |-> 0, outcome |-> NoOutcome,
     attempts |-> [d \in DiffPos |-> 0], entered |-> {},
     queue_items_processed |-> 0, m_tests_generated |-> 0,
     tests_failed |-> 0, error_message |-> FALSE]

TestInit ==
    /\ production_queue =
         [i \in Items |-> [status |-> "pending", tests_generated |-> 0,
                           error_log |-> FALSE, language_active |-> TRUE]]
    /\ tests = {}
    /\ questions = {}
    /\ test_skill_ratings = {}
    /\ test_generation_runs = 0
    /\ orch \in {[r \in Runs |-> OrchInit(d[r])] : d \in [Runs -> BOOLEAN]}
    /\ claimed = [i \in Items |-> {}]

TestIdle ==
    /\ production_queue =
         [i \in Items |-> [status |-> "pending", tests_generated |-> 0,
                           error_log |-> FALSE, language_active |-> TRUE]]
    /\ tests = {}
    /\ questions = {}
    /\ test_skill_ratings = {}
    /\ test_generation_runs = 0
    /\ orch = [r \in Runs |-> OrchInit(FALSE)]
    /\ claimed = [i \in Items |-> {}]

Item(r) == orch[r].batch[orch[r].cur]

\* What follows the end of _process_queue_item for the caller.
\*  run(): next item of the batch, or _finalize
\*  run_single(): return
AfterItem(o) ==
    IF o.mode = "single" THEN [o EXCEPT !.pc = "done"]
    ELSE IF o.cur < Len(o.batch)
         THEN [o EXCEPT !.pc = "process", !.cur = o.cur + 1]
         ELSE [o EXCEPT !.pc = "finalize"]

\* An exception leaving _process_queue_item.
\*  run(): the per-item except clause (tests_failed += 1, then mark failed)
\*  run_single(): propagates to the caller
RaisedInItem(o) ==
    IF o.mode = "single" THEN [o EXCEPT !.pc = "done"]
    ELSE [o EXCEPT !.pc = "failed", !.tests_failed = o.tests_failed + 1]

\* run(): start through get_pending_queue_items
Fetch(r) ==
    /\ orch[r].pc = "idle"
    /\ \E ok \in BOOLEAN :
         LET items == get_pending_queue_items(production_queue,
                                              orch[r].batch_size) IN
         orch' = [orch EXCEPT ![r] =
            IF ~ok
            THEN [@ EXCEPT !.pc = "finalize", !.error_message = TRUE]
            ELSE IF items = <<>>
            THEN [@ EXCEPT !.pc = "finalize"]
            ELSE [@ EXCEPT !.pc = "process", !.batch = items, !.cur = 1]]
    /\ UNCHANGED <<production_queue, tests, questions, test_skill_ratings,
                   test_generation_runs, claimed>>

\* run_single(queue_id): fetch the row by id, whatever its status
RunSingle(r) ==
    /\ orch[r].pc = "idle"
    /\ \E i \in Items, ok \in BOOLEAN :
         orch' = [orch EXCEPT ![r] =
            IF ~ok
            THEN [@ EXCEPT !.pc = "done", !.mode = "single"]
            ELSE [@ EXCEPT !.pc = "process", !.mode = "single",
                           !.batch = <<i>>, !.cur = 1]]
    /\ UNCHANGED <<production_queue, tests, questions, test_skill_ratings,
                   test_generation_runs, claimed>>

\* _process_queue_item: entry and "Mark as processing"
MarkProcessing(r) ==
    /\ orch[r].pc = "process"
    /\ LET i == Item(r)
           o == [orch[r] EXCEPT !.entered = @ \cup {i},
                                !.dpos = 0, !.tests_generated = 0,
                                !.outcome = NoOutcome,
                                !.attempts = [d \in DiffPos |-> 0]] IN
       IF orch[r].dry_run
       THEN /\ orch' = [orch EXCEPT ![r] = [o EXCEPT !.pc = "load"]]
            /\ UNCHANGED <<production_queue, claimed>>
       ELSE \E ok \in BOOLEAN :
              IF ok
              THEN /\ production_queue' = mark_queue_processing(production_queue, i)
                   /\ claimed' = [claimed EXCEPT ![i] = @ \cup {r}]
                   /\ orch' = [orch EXCEPT ![r] = [o EXCEPT !.pc = "load"]]
              ELSE /\ orch' = [orch EXCEPT ![r] = RaisedInItem(o)]
                   /\ UNCHANGED <<production_queue, claimed>>
    /\ UNCHANGED <<tests, questions, test_skill_ratings, test_generation_runs>>

\* _process_queue_item: get_topic, get_language_config, get_category_name
LoadTopic(r) ==
    /\ orch[r].pc = "load"
    /\ \E found \in BOOLEAN :
         orch' = [orch EXCEPT ![r] =
            IF found THEN [@ EXCEPT !.pc = "difficulty", !.dpos = 1]
            ELSE RaisedInItem(@)]
    /\ UNCHANGED <<production_queue, tests, questions, test_skill_ratings,
                   test_generation_runs, claimed>>

\* _process_queue_item: one iteration of the loop over target_difficulties
GenerateTest(r) ==
    /\ orch[r].pc = "difficulty"
    /\ \E res \in IF orch[r].dry_run THEN DryResults ELSE LiveResults :
         LET o    == orch[r]
             d    == o.dpos
             row  == [item |-> Item(r), difficulty |-> target_difficulties[d],
                      run |-> r, n_questions |-> res.n_questions,
                      audio |-> res.audio]
             nxt  == next_difficulty(d, ~res.success)
             o1   == [o EXCEPT
                        !.attempts[d] = @ + 1,
                        !.outcome[d] = IF res.success THEN "ok"
                                       ELSE IF res.audio = "failed"
                                            THEN "audio_failed" ELSE "raised",
                        !.tests_generated = count_success(@, res.success),
                        !.dpos = nxt]
         IN
         /\ tests' = IF "test" \in res.rows
                     THEN tests \cup {[row EXCEPT !.n_questions = 0]} ELSE tests
         /\ questions' = IF "questions" \in res.rows
                         THEN questions \cup {row} ELSE questions
         /\ test_skill_ratings' = IF "ratings" \in res.rows
                                  THEN test_skill_ratings \cup {row}
                                  ELSE test_skill_ratings
         /\ orch' = [orch EXCEPT ![r] =
                IF nxt \in DiffPos THEN o1 ELSE [o1 EXCEPT !.pc = "complete"]]
    /\ UNCHANGED <<production_queue, test_generation_runs, claimed>>

\* _process_queue_item: "Mark queue item complete" and return to the caller
MarkCompleted(r) ==
    /\ orch[r].pc = "complete"
    /\ LET i == Item(r)
           o == orch[r]
           returned == [o EXCEPT
                          !.queue_items_processed =
                              IF o.mode = "run" THEN @ + 1 ELSE @,
                          !.m_tests_generated =
                              IF o.mode = "run" THEN @ + o.tests_generated ELSE @]
       IN
       IF o.dry_run
       THEN /\ orch' = [orch EXCEPT ![r] = AfterItem(returned)]
            /\ UNCHANGED production_queue
       ELSE \E ok \in BOOLEAN :
              IF ok
              THEN /\ production_queue' =
                        mark_queue_completed(production_queue, i, o.tests_generated)
                   /\ orch' = [orch EXCEPT ![r] = AfterItem(returned)]
              ELSE /\ orch' = [orch EXCEPT ![r] = RaisedInItem(o)]
                   /\ UNCHANGED production_queue
    /\ UNCHANGED <<tests, questions, test_skill_ratings, test_generation_runs,
                   claimed>>

\* run(): the per-item except clause, mark_queue_failed
MarkFailed(r) ==
    /\ orch[r].pc = "failed"
    /\ LET i == Item(r)
           o == orch[r] IN
       IF o.dry_run
       THEN /\ orch' = [orch EXCEPT ![r] = AfterItem(o)]
            /\ UNCHANGED production_queue
       ELSE \E ok \in BOOLEAN :
              IF ok
              THEN /\ production_queue' = mark_queue_failed(production_queue, i)
                   /\ orch' = [orch EXCEPT ![r] = AfterItem(o)]
              ELSE \* the exception leaves the loop: outer except of run()
                   /\ orch' = [orch EXCEPT ![r] =
                                  [o EXCEPT !.pc = "finalize",
                                            !.error_message = TRUE]]
                   /\ UNCHANGED production_queue
    /\ UNCHANGED <<tests, questions, test_skill_ratings, test_generation_runs,
                   claimed>>

\* _finalize: insert_generation_run unless dry run; a failure is only logged
Finalize(r) ==
    /\ orch[r].pc = "finalize"
    /\ \E ok \in BOOLEAN :
         test_generation_runs' =
            IF ~orch[r].dry_run /\ ok
            THEN test_generation_runs + 1 ELSE test_generation_runs
    /\ orch' = [orch EXCEPT ![r].pc = "done"]
    /\ UNCHANGED <<production_queue, tests, questions, test_skill_ratings,
                   claimed>>

TestNext ==
    \E r \in Runs :
        \/ Fetch(r)
        \/ RunSingle(r)
        \/ MarkProcessing(r)
        \/ LoadTopic(r)
        \/ GenerateTest(r)
        \/ MarkCompleted(r)
        \/ MarkFailed(r)
        \/ Finalize(r)

\* ========================================================================
\* Placeholders of the other two subsystems while the test side runs
\* ========================================================================
GateIdle == gate = 0
AgentIdle ==
    /\ boundary = 0 /\ explorer = 0 /\ validator = 0 /\ generation = 0
    /\ parser = 0 /\ voice = 0
TopicIdle ==
    /\ topics = {}
    /\ topic_queue = {}
    /\ categories = 0
    /\ topic_generation_runs = 0
    /\ torch = 0
    /\ now = 0

Init == TestInit /\ GateIdle /\ TopicIdle /\ AgentIdle
Next ==
    /\ TestNext
    /\ UNCHANGED gateVars
    /\ UNCHANGED topicVars
    /\ UNCHANGED agentVars
Spec == Init /\ [][Next]_vars

\* One execution of the test orchestrator on its own (no overlapping run).
SoloNext ==
    /\ \/ Fetch(1)
       \/ RunSingle(1)
       \/ MarkProcessing(1)
       \/ LoadTopic(1)
       \/ GenerateTest(1)
       \/ MarkCompleted(1)
       \/ MarkFailed(1)
       \/ Finalize(1)
    /\ UNCHANGED gateVars
    /\ UNCHANGED topicVars
    /\ UNCHANGED agentVars
SpecSolo == Init /\ [][SoloNext]_vars

\* One execution over a queue whose items are in any status and belong to
\* active or inactive languages, with a batch size from 1 to batch_size.
QueueStatuses == {"pending", "processing", "active", "rejected"}

FetchInit ==
    /\ production_queue \in
         [Items -> [status : QueueStatuses, tests_generated : {0},
                    error_log : {FALSE}, language_active : BOOLEAN]]
    /\ tests = {}
    /\ questions = {}
    /\ test_skill_ratings = {}
    /\ test_generation_runs = 0
    /\ orch \in {[r \in Runs |-> [OrchInit(d) EXCEPT !.batch_size = n]] :
                   d \in BOOLEAN, n \in 1..batch_size}
    /\ claimed = [i \in Items |-> {}]

InitFetch == FetchInit /\ GateIdle /\ TopicIdle /\ AgentIdle
SpecFetch == InitFetch /\ [][SoloNext]_vars

\* ========================================================================
\* Cultural Gatekeeper
\* ========================================================================
Langs == 1..MaxLangs
Min(a, b) == IF a < b THEN a ELSE b

\* Strings are sequences of one-character strings.
Str_yes == <<"y", "e", "s">>
Str_no == <<"n", "o">>

\* str.lower() on the letters that occur in the modelled responses
LowerChar(c) ==
    CASE c = "Y" -> "y" [] c = "E" -> "e" [] c = "S" -> "s"
      [] c = "N" -> "n" [] c = "O" -> "o" [] c = "I" -> "i"
      [] c = "A" -> "a" [] c = "B" -> "b" [] c = "C" -> "c"
      [] c = "D" -> "d"
      [] OTHER -> c
Lower(str) == [k \in 1..Len(str) |-> LowerChar(str[k])]

\* str.strip(): leading and trailing whitespace removed
RECURSIVE LStrip(_)
LStrip(str) ==
    IF str # <<>> /\ Head(str) = " " THEN LStrip(Tail(str)) ELSE str
RECURSIVE RStrip(_)
RStrip(str) ==
    IF str # <<>> /\ str[Len(str)] = " "
    THEN RStrip(SubSeq(str, 1, Len(str) - 1)) ELSE str
Strip(str) == RStrip(LStrip(str))

\* str.startswith(prefix)
StartsWith(str, prefix) ==
    /\ Len(str) >= Len(prefix)
    /\ SubSeq(str, 1, Len(prefix)) = prefix

\* "sub in str"
Contains(str, sub) ==
    \E k \in 1..(Len(str) - Len(sub) + 1) :
        SubSeq(str, k, k + Len(sub) - 1) = sub

\* Language-model responses the Gatekeeper may receive
Responses ==
    {<<"Y", "E", "S">>,
     <<" ", "y", "e", "s", " ", "o", "k">>,
     <<"Y", "e", "s", ".">>,
     <<"N", "O">>,
     <<" ", "n", "o">>,
     <<"N", "o", " ", "y", "e", "s">>,
     <<"m", "a", "y", "b", "e">>,
     <<"I", " ", "s", "a", "y", " ", "y", "e", "s">>,
     <<"y", "e", "s", " ", "o", "r", " ", "n", "o">>,
     <<"n", "o", "t", " ", "y", "e", "s">>,
     <<"k", "n", "o", "w", " ", "y", "e", "s">>,
     <<>>,
     <<"s", "i">>}

\* Variant: "yes" anywhere approves, also when "no" occurs.
parse_decision_any_yes(response) ==
    LET response_lower == Strip(Lower(response)) IN
    IF StartsWith(response_lower, Str_yes) THEN TRUE
    ELSE IF StartsWith(response_lower, Str_no) THEN FALSE
    ELSE Contains(response_lower, Str_yes)

\* GatekeeperAgent._parse_decision
parse_decision(response) ==
    LET response_lower == Strip(Lower(response)) IN
    IF StartsWith(response_lower, Str_yes) THEN TRUE
    ELSE IF StartsWith(response_lower, Str_no) THEN FALSE
    ELSE IF Contains(response_lower, Str_yes)
            /\ ~Contains(response_lower, Str_no) THEN TRUE
    ELSE FALSE

\* GatekeeperAgent.validate_for_language: the model is called through
\* _call_llm (retried, re-raised); an exception is a rejection.
validate_for_language(response, llm_fails) ==
    IF RetryCall(llm_fails) THEN parse_decision(response) ELSE FALSE

\* Variant: the loop stops only above the threshold.
short_circuit_above(consecutive_rejections, short_circuit_threshold) ==
    consecutive_rejections > short_circuit_threshold

\* validate_for_all_languages: "if consecutive_rejections >= threshold: break"
short_circuit(consecutive_rejections, short_circuit_threshold) ==
    consecutive_rejections >= short_circuit_threshold

\* Variant: a rejection does not advance the counter.
after_verdict_uncounted(consecutive_rejections, is_approved) ==
    IF is_approved THEN 0 ELSE consecutive_rejections

\* validate_for_all_languages: reset on approval, count a rejection
after_verdict(consecutive_rejections, is_approved) ==
    IF is_approved THEN 0 ELSE consecutive_rejections + 1

NoVerdict == [response |-> <<>>, failed |-> FALSE, approved |-> FALSE,
              evaluated |-> FALSE]

GateInit ==
    gate \in {[pc |-> "loop", languages |-> n, threshold |-> t, idx |-> 1,
               approved |-> <<>>, consecutive_rejections |-> 0,
               evaluated |-> 0, rejected |-> 0, rejection_count |-> 0,
               last |-> NoVerdict] :
              n \in 1..MaxLangs, t \in 0..MaxThreshold}

\* one iteration of "for lang in languages": validate_for_language
ValidateLanguage ==
    /\ gate.pc = "loop"
    /\ gate.idx <= gate.languages
    /\ ~short_circuit(gate.consecutive_rejections, gate.threshold)
    /\ \E response \in Responses, llm_fails \in {0, stop_after_attempt} :
         LET is_approved == validate_for_language(response, llm_fails) IN
         gate' = [gate EXCEPT
            !.idx = @ + 1,
            !.approved = IF is_approved THEN Append(@, gate.idx) ELSE @,
            !.consecutive_rejections = after_verdict(@, is_approved),
            !.evaluated = @ + 1,
            !.rejected = IF is_approved THEN @ ELSE @ + 1,
            !.rejection_count = IF is_approved THEN @ ELSE @ + 1,
            !.last = [response |-> response,
                      failed |-> ~RetryCall(llm_fails),
                      approved |-> is_approved, evaluated |-> TRUE]]
    /\ UNCHANGED testVars
    /\ UNCHANGED topicVars

\* the short-circuit break
ShortCircuit ==
    /\ gate.pc = "loop"
    /\ gate.idx <= gate.languages
    /\ short_circuit(gate.consecutive_rejections, gate.threshold)
    /\ gate' = [gate EXCEPT !.pc = "done"]
    /\ UNCHANGED testVars
    /\ UNCHANGED topicVars

\* the loop is exhausted: return approved
ReturnApproved ==
    /\ gate.pc = "loop"
    /\ gate.idx > gate.languages
    /\ gate' = [gate EXCEPT !.pc = "done"]
    /\ UNCHANGED testVars
    /\ UNCHANGED topicVars

GateNext == ValidateLanguage \/ ShortCircuit \/ ReturnApproved
InitGate == TestIdle /\ GateInit /\ TopicIdle /\ AgentIdle
NextGate == GateNext /\ UNCHANGED agentVars
SpecGate == InitGate /\ [][NextGate]_vars

\* ========================================================================
\* Topic generation: pure parts
\* ========================================================================
TopicRuns == 1..NumTopicRuns
Categories == 1..NumCategories
Languages == 1..NumLanguages
Never == -1

\* Signature embeddings the embedding provider may return.
Embeddings == {<<1, 0>>, <<2, 1>>, <<1, 1>>}

Dot(a, b) == a[1] * b[1] + a[2] * b[2]

\* cosine-similarity(a, b) >= threshold / 100, in integer arithmetic
cosine_at_least(a, b, threshold) ==
    /\ Dot(a, b) >= 0
    /\ 10000 * Dot(a, b) * Dot(a, b)
          >= threshold * threshold * Dot(a, a) * Dot(b, b)

\* Variant: only a topic with the same embedding counts as similar.
find_similar_topics_same_embedding(rows, category_id, embedding, threshold) ==
    {t \in rows : /\ t.category_id = category_id
                  /\ t.embedding = embedding}

\* RPC match_topics as called by find_similar_topics: the topics of the
\* category whose similarity to the query embedding reaches the threshold.
find_similar_topics(rows, category_id, embedding, threshold) ==
    {t \in rows : /\ t.category_id = category_id
                  /\ cosine_at_least(t.embedding, embedding, threshold)}

\* ArchivistAgent.check_novelty after the embedding call returned
check_novelty(rows, category_id, embedding, threshold) ==
    find_similar_topics(rows, category_id, embedding, threshold) = {}

\* RPC get_next_category: the categories out of their cooldown window,
\* least recently used first (never used before used, then by id).
Eligible(cats, t) ==
    {c \in Categories :
        \/ cats[c].last_used_at = Never
        \/ cats[c].last_used_at + cooldown_days <= t}

\* Variant: least recently used first, cooldown ignored.
get_next_category_any(cats, t) ==
    CHOOSE c \in Categories :
        \A d \in Categories :
            \/ cats[c].last_used_at < cats[d].last_used_at
            \/ (cats[c].last_used_at = cats[d].last_used_at /\ c <= d)

get_next_category(cats, t) ==
    LET e == Eligible(cats, t) IN
    IF e = {} THEN 0
    ELSE CHOOSE c \in e :
            \A d \in e :
                \/ cats[c].last_used_at < cats[d].last_used_at
                \/ (cats[c].last_used_at = cats[d].last_used_at /\ c <= d)

\* GatekeeperAgent.validate_for_all_languages as a function of the verdict
\* each language would give: the approved languages, in language order.
RECURSIVE validate_from(_, _, _, _)
validate_from(verdict, k, consecutive_rejections, threshold) ==
    IF k > NumLanguages \/ short_circuit(consecutive_rejections, threshold)
    THEN <<>>
    ELSE (IF verdict[k] THEN <<k>> ELSE <<>>)
         \o validate_from(verdict, k + 1,
                          after_verdict(consecutive_rejections, verdict[k]),
                          threshold)

validate_for_all_languages(verdict) ==
    validate_from(verdict, 1, 0, gatekeeper_short_circuit_threshold)

GatekeeperResults ==
    {validate_for_all_languages(v) : v \in [Languages -> BOOLEAN]}

\* _run_gatekeeper: the rejections added to topics_rejected_gatekeeper
gatekeeper_rejections(approved) ==
    Min(NumLanguages, Len(approved) + gatekeeper_short_circuit_threshold)
        - Len(approved)

\* ========================================================================
\* Topic generation: executions
\* ========================================================================
CandidatePos == 1..MaxCandidates

\* main has not exited
NoExit == -1

TorchInit(dry, max_candidates) ==
    [pc |-> "idle", dry_run |-> dry, max_candidates_per_run |-> max_candidates,
     category |-> 0, has_metrics |-> FALSE,
     candidates |-> 0, ci |-> 0, embedding |-> <<0, 0>>,
     approved_count |-> 0, queue_items |-> <<>>, current |-> 0,
     candidates_proposed |-> 0, topics_generated |-> 0,
     topics_rejected_similarity |-> 0, topics_rejected_gatekeeper |-> 0,
     error_message |-> FALSE, finalize_category |-> 0,
     \* how the category selection ended, and the exit code of main
     selection |-> "none", exit_code |-> NoExit,
     \* the outcome of step 3: none, ok, missing
     prompts |-> "none",
     \* the insert_generation_run call of _finalize: none, ok, failed
     metrics_insert |-> "none",
     \* what the execution did, per candidate position
     explored |-> FALSE,
     novelty |-> [k \in CandidatePos |-> "none"],
     gated |-> {}, approvals |-> {}]

\* run_topic_generation.main, "Determine exit code", from the metrics that
\* run() returned.  run() catches every exception, so the two except
\* clauses of main are not reached from it.
topic_exit_code(error_message, topics_generated) ==
    IF error_message THEN 2
    ELSE IF topics_generated < daily_topic_quota THEN 1
    ELSE 0

\* Overlapping executions, each configured with TOPIC_MAX_CANDIDATES = 1.
TopicInit ==
    /\ topics = {}
    /\ topic_queue = {}
    /\ categories = [c \in Categories |->
                        [last_used_at |-> Never, total_topics_generated |-> 0]]
    /\ topic_generation_runs = 0
    /\ torch \in {[r \in TopicRuns |-> TorchInit(d[r], 1)] :
                    d \in [TopicRuns -> BOOLEAN]}
    /\ now = 0

\* An exception reaching the except clause of run()
TopicRaised(o) ==
    [o EXCEPT !.pc = "finalize",
              !.error_message = IF o.has_metrics THEN TRUE ELSE @,
              !.finalize_category = 0]

\* The candidate loop goes on with the next candidate, or is over.
NextCandidate(o) ==
    IF o.ci < o.candidates THEN [o EXCEPT !.pc = "candidate", !.ci = @ + 1]
    ELSE [o EXCEPT !.pc = "queue"]

\* Variant: a similarity rejection is not counted.
rejected_similarity_uncounted(o) == NextCandidate(o)

\* run(): "if not is_novel": count the rejection, continue
rejected_similarity(o) ==
    NextCandidate([o EXCEPT !.topics_rejected_similarity = @ + 1])

\* Variant: a queue item for every active language.
queue_items_for_all(topic_id, approved) ==
    [k \in 1..NumLanguages |-> <<topic_id, k>>]

\* Variant: every item carries the same topic id.
queue_items_for_one_id(topic_id, approved) ==
    [k \in 1..Len(approved) |-> <<0, approved[k]>>]

\* run(): "for lang in approved_languages: queue_items.append(...)"
queue_items_for(topic_id, approved) ==
    [k \in 1..Len(approved) |-> <<topic_id, approved[k]>>]

\* batch_insert_queue: one pending row per (topic_id, language_id) item
batch_insert_queue(items, r) ==
    {[topic_id |-> items[k][1], language_id |-> items[k][2],
      status |-> "pending", run |-> r, pos |-> k] : k \in 1..Len(items)}

\* Variant: the queue insert ignores the dry-run flag.
inserts_queue_always(queue_items, dry_run) == queue_items # <<>>

\* run(): "if queue_items and not topic_gen_config.dry_run"
inserts_queue(queue_items, dry_run) == queue_items # <<>> /\ ~dry_run

\* Variant: the loop stops only above the quota.
quota_reached_above(approved_count) == approved_count > daily_topic_quota

\* run(): "if approved_count >= topic_gen_config.daily_topic_quota: break"
quota_reached(approved_count) == approved_count >= daily_topic_quota

\* run(): load languages and lenses, select the next category
SelectCategory(r) ==
    /\ torch[r].pc = "idle"
    /\ \E loaded \in BOOLEAN :
         LET c == get_next_category(categories, now)
             o == torch[r] IN
         torch' = [torch EXCEPT ![r] =
            IF ~loaded
            THEN TopicRaised([o EXCEPT !.selection = "load_failed"])
            ELSE IF c = 0
            THEN TopicRaised([o EXCEPT !.selection = "no_category"])
            ELSE [o EXCEPT !.pc = "explore", !.category = c,
                           !.has_metrics = TRUE, !.selection = "ok"]]
    /\ UNCHANGED <<topics, topic_queue, categories, topic_generation_runs, now>>

\* Variant: only the explorer template is tested.
prompts_found_explorer_only(explorer_prompt, gatekeeper_prompt) ==
    explorer_prompt

\* run(): "if not explorer_prompt: raise", "if not gatekeeper_prompt: raise"
\* TRUE: both templates were found and step 4 is reached.
prompts_found(explorer_prompt, gatekeeper_prompt) ==
    explorer_prompt /\ gatekeeper_prompt

\* run(): fetch the two prompt templates, run the Explorer
Explore(r) ==
    /\ torch[r].pc = "explore"
    /\ \E explorer_prompt \in BOOLEAN, gatekeeper_prompt \in BOOLEAN,
          n \in 0..torch[r].max_candidates_per_run :
         LET o == [torch[r] EXCEPT !.prompts =
                      IF explorer_prompt /\ gatekeeper_prompt THEN "ok"
                      ELSE "missing"] IN
         torch' = [torch EXCEPT ![r] =
            IF ~prompts_found(explorer_prompt, gatekeeper_prompt)
            THEN TopicRaised(o)
            ELSE IF n = 0
            THEN [o EXCEPT !.pc = "finalize", !.explored = TRUE,
                           !.finalize_category = o.category]
            ELSE [o EXCEPT !.pc = "candidate", !.candidates = n, !.ci = 1,
                           !.candidates_proposed = n, !.explored = TRUE]]
    /\ UNCHANGED <<topics, topic_queue, categories, topic_generation_runs, now>>

\* run(): loop head for one candidate: quota, lens, signature, check_novelty
CheckNovelty(r) ==
    /\ torch[r].pc = "candidate"
    /\ LET o == torch[r] IN
       IF quota_reached(o.approved_count)
       THEN torch' = [torch EXCEPT ![r] = [o EXCEPT !.pc = "queue"]]
       ELSE \E lens_known \in BOOLEAN, embedded \in {"ok", "empty", "raise"},
               e \in Embeddings :
              torch' = [torch EXCEPT ![r] =
                 IF ~lens_known
                 THEN NextCandidate([o EXCEPT !.novelty[o.ci] = "no_lens"])
                 ELSE IF embedded = "raise"
                 THEN TopicRaised([o EXCEPT !.novelty[o.ci] = "raised"])
                 ELSE IF embedded = "empty"
                         \/ ~check_novelty(topics, o.category, e,
                                           similarity_threshold)
                 THEN rejected_similarity(
                        [o EXCEPT !.novelty[o.ci] = "not_novel"])
                 ELSE [o EXCEPT !.pc = "insert", !.embedding = e,
                                !.novelty[o.ci] = "novel"]]
    /\ UNCHANGED <<topics, topic_queue, categories, topic_generation_runs, now>>

\* run(): insert_topic (unless dry run), then the Gatekeeper
InsertTopic(r) ==
    /\ torch[r].pc = "insert"
    /\ \E ok \in BOOLEAN, approved \in GatekeeperResults :
         LET o == torch[r]
             topic_id == IF o.dry_run THEN 0 ELSE Cardinality(topics) + 1
             gated == [o EXCEPT
                 !.topics_rejected_gatekeeper =
                     @ + gatekeeper_rejections(approved),
                 !.queue_items = @ \o queue_items_for(topic_id, approved),
                 !.approved_count = IF approved # <<>> THEN @ + 1 ELSE @,
                 !.gated = @ \cup {o.ci},
                 !.approvals =
                     @ \cup {<<o.ci, approved[k]>> : k \in 1..Len(approved)}]
         IN
         IF ~o.dry_run /\ ~ok
         THEN /\ torch' = [torch EXCEPT ![r] = TopicRaised(o)]
              /\ UNCHANGED topics
         ELSE /\ topics' = IF o.dry_run THEN topics
                           ELSE topics \cup
                                  {[id |-> topic_id,
                                    category_id |-> o.category,
                                    embedding |-> o.embedding,
                                    run |-> r, cand |-> o.ci]}
              /\ torch' = [torch EXCEPT ![r] = NextCandidate(gated)]
    /\ UNCHANGED <<topic_queue, categories, topic_generation_runs, now>>

\* run(): "Step 6: Batch queue insertion"
BatchInsertQueue(r) ==
    /\ torch[r].pc = "queue"
    /\ \E ok \in BOOLEAN :
         LET o == torch[r]
             done == [o EXCEPT !.topics_generated = o.approved_count,
                               !.pc = IF o.dry_run THEN "finalize"
                                      ELSE "usage",
                               !.finalize_category = o.category]
         IN
         IF inserts_queue(o.queue_items, o.dry_run)
         THEN IF ok
              THEN /\ topic_queue' = topic_queue \cup
                        batch_insert_queue(o.queue_items, r)
                   /\ torch' = [torch EXCEPT ![r] = done]
              ELSE /\ torch' = [torch EXCEPT ![r] = TopicRaised(o)]
                   /\ UNCHANGED topic_queue
         ELSE /\ torch' = [torch EXCEPT ![r] = done]
              /\ UNCHANGED topic_queue
    /\ UNCHANGED <<topics, categories, topic_generation_runs, now>>

\* run(): "Step 7": update_category_usage
UpdateCategoryUsage(r) ==
    /\ torch[r].pc = "usage"
    /\ \E ok \in BOOLEAN :
         LET o == torch[r] IN
         IF ok
         THEN /\ categories' =
                    [categories EXCEPT ![o.category].last_used_at = now]
              /\ torch' = [torch EXCEPT ![r].pc =
                    IF o.approved_count > 0 THEN "increment_read"
                    ELSE "finalize"]
         ELSE /\ torch' = [torch EXCEPT ![r] = TopicRaised(o)]
              /\ UNCHANGED categories
    /\ UNCHANGED <<topics, topic_queue, topic_generation_runs, now>>

\* increment_category_topics: "Fetch current count"
IncrementRead(r) ==
    /\ torch[r].pc = "increment_read"
    /\ \E ok \in BOOLEAN :
         LET o == torch[r] IN
         torch' = [torch EXCEPT ![r] =
            IF ok
            THEN [o EXCEPT !.pc = "increment_write",
                    !.current = categories[o.category].total_topics_generated]
            ELSE TopicRaised(o)]
    /\ UNCHANGED <<topics, topic_queue, categories, topic_generation_runs, now>>

\* increment_category_topics: update with current + count
IncrementWrite(r) ==
    /\ torch[r].pc = "increment_write"
    /\ \E ok \in BOOLEAN :
         LET o == torch[r] IN
         IF ok
         THEN /\ categories' =
                    [categories EXCEPT ![o.category].total_topics_generated =
                        o.current + o.approved_count]
              /\ torch' = [torch EXCEPT ![r].pc = "finalize"]
         ELSE /\ torch' = [torch EXCEPT ![r] = TopicRaised(o)]
              /\ UNCHANGED categories
    /\ UNCHANGED <<topics, topic_queue, topic_generation_runs, now>>

\* Variant: the metrics row is written in dry-run mode too.
persists_metrics_always(dry_run) == TRUE

\* _finalize: "if not topic_gen_config.dry_run"
persists_metrics(dry_run) == ~dry_run

\* _finalize: insert_generation_run unless dry run; a failure is only
\* logged.  run() returns the metrics and main exits with their code.
TopicFinalize(r) ==
    /\ torch[r].pc = "finalize"
    /\ \E ok \in BOOLEAN :
         LET o == torch[r]
             insert == persists_metrics(o.dry_run) IN
         /\ topic_generation_runs' =
               IF insert /\ ok
               THEN topic_generation_runs + 1 ELSE topic_generation_runs
         /\ torch' = [torch EXCEPT ![r] =
               [o EXCEPT !.pc = "done",
                         !.metrics_insert = IF ~insert THEN "none"
                                            ELSE IF ok THEN "ok" ELSE "failed",
                         !.exit_code = topic_exit_code(o.error_message,
                                                       o.topics_generated)]]
    /\ UNCHANGED <<topics, topic_queue, categories, now>>

\* time passes
Tick ==
    /\ now < MaxTime
    /\ now' = now + 1
    /\ UNCHANGED <<topics, topic_queue, categories, topic_generation_runs,
                   torch>>

TopicNext ==
    \/ \E r \in TopicRuns :
        \/ SelectCategory(r)
        \/ Explore(r)
        \/ CheckNovelty(r)
        \/ InsertTopic(r)
        \/ BatchInsertQueue(r)
        \/ UpdateCategoryUsage(r)
        \/ IncrementRead(r)
        \/ IncrementWrite(r)
        \/ TopicFinalize(r)
    \/ Tick

InitTopic == TestIdle /\ GateIdle /\ TopicInit /\ AgentIdle
NextTopic ==
    /\ TopicNext
    /\ UNCHANGED testVars
    /\ UNCHANGED gateVars
    /\ UNCHANGED agentVars
SpecTopic == InitTopic /\ [][NextTopic]_vars

\* One execution of the topic orchestrator on its own, configured with
\* TOPIC_MAX_CANDIDATES = MaxCandidates.
TopicSoloInit ==
    /\ topics = {}
    /\ topic_queue = {}
    /\ categories = [c \in Categories |->
                        [last_used_at |-> Never, total_topics_generated |-> 0]]
    /\ topic_generation_runs = 0
    /\ torch \in {[r \in TopicRuns |-> TorchInit(d, MaxCandidates)] :
                    d \in BOOLEAN}
    /\ now = 0

\* One execution with TOPIC_MAX_CANDIDATES = 1 over categories that may be
\* inside their cooldown window.
TopicEntryInit ==
    /\ topics = {}
    /\ topic_queue = {}
    /\ categories \in [Categories ->
            [last_used_at : {Never} \cup (0..MaxTime),
             total_topics_generated : {0}]]
    /\ topic_generation_runs = 0
    /\ torch \in {[r \in TopicRuns |-> TorchInit(d, 1)] : d \in BOOLEAN}
    /\ now \in 0..MaxTime

InitTopicSolo == TestIdle /\ GateIdle /\ TopicSoloInit /\ AgentIdle
NextTopicSolo ==
    /\ \/ SelectCategory(1)
       \/ Explore(1)
       \/ CheckNovelty(1)
       \/ InsertTopic(1)
       \/ BatchInsertQueue(1)
       \/ UpdateCategoryUsage(1)
       \/ IncrementRead(1)
       \/ IncrementWrite(1)
       \/ TopicFinalize(1)
       \/ Tick
    /\ UNCHANGED testVars
    /\ UNCHANGED gateVars
    /\ UNCHANGED agentVars
SpecTopicSolo == InitTopicSolo /\ [][NextTopicSolo]_vars

\* One execution with TOPIC_MAX_CANDIDATES = MaxCandidates that may find in
\* the topic store a topic left by an earlier execution (run 0) whose
\* candidate no language approved: a topic row without queue rows.
EarlierTopics ==
    {[id |-> 1, category_id |-> c, embedding |-> e, run |-> 0, cand |-> 1] :
        c \in Categories, e \in Embeddings}

TopicLaterInit ==
    /\ topics \in {{}} \cup {{t} : t \in EarlierTopics}
    /\ topic_queue = {}
    /\ categories = [c \in Categories |->
                        [last_used_at |-> Never, total_topics_generated |-> 0]]
    /\ topic_generation_runs = 0
    /\ torch \in {[r \in TopicRuns |-> TorchInit(d, MaxCandidates)] :
                    d \in BOOLEAN}
    /\ now = 0

InitTopicLater == TestIdle /\ GateIdle /\ TopicLaterInit /\ AgentIdle
SpecTopicLater == InitTopicLater /\ [][NextTopicSolo]_vars

InitTopicEntry == TestIdle /\ GateIdle /\ TopicEntryInit /\ AgentIdle
SpecTopicEntry == InitTopicEntry /\ [][NextTopicSolo]_vars

\* Category selection on its own: executions that select a category from
\* a store whose categories were used at any time up to now, or never.
SelectInit ==
    /\ topics = {}
    /\ topic_queue = {}
    /\ categories \in [Categories ->
            [last_used_at : {Never} \cup (0..MaxTime),
             total_topics_generated : {0}]]
    /\ topic_generation_runs = 0
    /\ torch = [r \in TopicRuns |-> TorchInit(FALSE, 1)]
    /\ now \in 0..MaxTime

InitSelect == TestIdle /\ GateIdle /\ SelectInit /\ AgentIdle
NextSelect ==
    /\ \/ \E r \in TopicRuns : SelectCategory(r)
       \/ Tick
    /\ UNCHANGED testVars
    /\ UNCHANGED gateVars
    /\ UNCHANGED agentVars
SpecSelect == InitSelect /\ [][NextSelect]_vars

\* ========================================================================
\* Boundary calls and their retry policy
\* ========================================================================
\* The boundary calls of the pipeline.
\*  llm        BaseAgent._call_llm (Explorer, Gatekeeper)
\*  embedding  EmbeddingService.embed_batch
\*  tts        AudioSynthesizer.generate_and_upload (speech synthesis and
\*             the object-storage write inside it)
\*  prose, questions, title   the language-model calls of the test agents
\*  translate  TopicTranslator.translate
\*  store      a relational-store query of the database clients
BoundaryCalls ==
    {"llm", "embedding", "tts", "prose", "questions", "title", "translate",
     "store"}

\* The attempts the decorator of each call allows: stop_after_attempt(3),
\* stop_after_attempt(2) for translate, and no decorator (one attempt) for
\* the store queries.
max_attempts(kind) ==
    IF kind = "store" THEN 1
    ELSE IF kind = "translate" THEN 2
    ELSE stop_after_attempt

BoundaryInit ==
    boundary \in {[kind |-> k, fails |-> f, attempts |-> 0, state |-> "calling"] :
                    k \in BoundaryCalls, f \in 0..MaxFails}

\* One attempt of the call: it fails while failures remain; the exception
\* is re-raised to the caller when the allowed attempts are used up.
Attempt ==
    /\ boundary.state = "calling"
    /\ LET n == boundary.attempts + 1 IN
       boundary' = [boundary EXCEPT
          !.attempts = n,
          !.state = IF n > boundary.fails THEN "returned"
                    ELSE IF n >= max_attempts(boundary.kind) THEN "raised"
                    ELSE "calling"]
    /\ UNCHANGED <<explorer, validator, generation, parser, voice>>

InitBoundary ==
    /\ TestIdle /\ GateIdle /\ TopicIdle
    /\ BoundaryInit /\ explorer = 0 /\ validator = 0 /\ generation = 0
    /\ parser = 0 /\ voice = 0
NextBoundary ==
    Attempt /\ UNCHANGED testVars /\ UNCHANGED gateVars /\ UNCHANGED topicVars
SpecBoundary == InitBoundary /\ [][NextBoundary]_vars

\* ========================================================================
\* Explorer
\* ========================================================================
\* A field the candidate object does not have.
Missing == <<"<missing>">>
Fill(c, n) == [k \in 1..n |-> c]

\* Values of "concept" and "lens" in the objects of a model response.
Concepts ==
    {Missing, <<>>, Fill(" ", min_concept_length),
     <<" ", " ">> \o Fill("a", 3) \o Fill(" ", min_concept_length - 5),
     Fill("a", min_concept_length - 1), Fill("a", min_concept_length),
     <<" ">> \o Fill("a", min_concept_length + 1)}
LensValues == {Missing, <<>>, <<" ", " ">>, <<"E", "c", "o", " ">>}
CandidateItems == [concept : Concepts, lens : LensValues]

RECURSIVE SeqsUpTo(_, _)
SeqsUpTo(S, n) ==
    IF n = 0 THEN {<<>>}
    ELSE LET shorter == SeqsUpTo(S, n - 1) IN
         shorter \cup {Append(q, x) : q \in {t \in shorter : Len(t) = n - 1},
                                      x \in S}

\* ExplorerAgent._validate_candidate
validate_candidate(item) ==
    /\ item.concept # Missing /\ item.concept # <<>>
    /\ item.lens # Missing /\ item.lens # <<>>
    /\ Len(item.concept) >= min_concept_length

\* TopicCandidate(concept=item['concept'].strip(),
\*                lens_code=item['lens'].lower().strip())
TopicCandidate(item) ==
    [concept |-> Strip(item.concept), lens_code |-> Strip(Lower(item.lens))]

RECURSIVE valid_candidates(_)
valid_candidates(items) ==
    IF items = <<>> THEN <<>>
    ELSE (IF validate_candidate(Head(items))
          THEN <<TopicCandidate(Head(items))>> ELSE <<>>)
         \o valid_candidates(Tail(items))

\* ExplorerAgent.generate_candidates.
\*  template_ok : prompt_template.format(...) returns (it is outside the try)
\*  llm_fails   : failing attempts of _call_llm
\*  parsed      : _parse_json_response returned a non-empty object
\*  items       : data.get('candidates', [])
\* Result: raised or not, and the list returned.
generate_candidates(template_ok, llm_fails, parsed, items, num_candidates) ==
    IF ~template_ok THEN [raised |-> TRUE, candidates |-> <<>>]
    ELSE IF ~RetryCall(llm_fails) THEN [raised |-> FALSE, candidates |-> <<>>]
    ELSE IF ~parsed THEN [raised |-> FALSE, candidates |-> <<>>]
    ELSE [raised |-> FALSE,
          candidates |->
             SubSeq(valid_candidates(items), 1,
                    Min(num_candidates, Len(valid_candidates(items))))]

ExplorerInit ==
    explorer \in
        {[pc |-> "call", template_ok |-> t, llm_fails |-> f, parsed |-> p,
          items |-> i, num_candidates |-> n,
          raised |-> FALSE, candidates |-> <<>>] :
            t \in BOOLEAN, f \in {0, stop_after_attempt}, p \in BOOLEAN,
            i \in SeqsUpTo(CandidateItems, MaxResponseItems),
            n \in 0..MaxResponseItems}

GenerateCandidates ==
    /\ explorer.pc = "call"
    /\ LET res == generate_candidates(explorer.template_ok, explorer.llm_fails,
                                      explorer.parsed, explorer.items,
                                      explorer.num_candidates) IN
       explorer' = [explorer EXCEPT !.pc = "done", !.raised = res.raised,
                                    !.candidates = res.candidates]
    /\ UNCHANGED <<boundary, validator, generation, parser, voice>>

InitExplorer ==
    /\ TestIdle /\ GateIdle /\ TopicIdle
    /\ boundary = 0 /\ ExplorerInit /\ validator = 0 /\ generation = 0
    /\ parser = 0 /\ voice = 0
NextExplorer ==
    /\ GenerateCandidates
    /\ UNCHANGED testVars
    /\ UNCHANGED gateVars
    /\ UNCHANGED topicVars
SpecExplorer == InitExplorer /\ [][NextExplorer]_vars

\* ========================================================================
\* One _generate_test call
\* ========================================================================
DbFailures == {"none", "test", "questions", "ratings"}

GenerationInit ==
    generation \in
        {[pc |-> "call", dry_run |-> d, prose_ok |-> p, n_valid |-> n,
          audio_fails |-> f, db |-> b,
          success |-> FALSE, audio |-> "none", rows |-> {}, n_questions |-> 0] :
            d \in BOOLEAN, p \in BOOLEAN, n \in 0..questions_per_test,
            f \in 0..stop_after_attempt, b \in DbFailures}

CallGenerateTest ==
    /\ generation.pc = "call"
    /\ LET res == generate_test(generation.dry_run, generation.prose_ok,
                                generation.n_valid, generation.audio_fails,
                                generation.db) IN
       generation' = [generation EXCEPT
          !.pc = "done", !.success = res.success, !.audio = res.audio,
          !.rows = res.rows, !.n_questions = res.n_questions]
    /\ UNCHANGED <<boundary, explorer, validator, parser, voice>>

InitGeneration ==
    /\ TestIdle /\ GateIdle /\ TopicIdle
    /\ boundary = 0 /\ explorer = 0 /\ validator = 0 /\ GenerationInit
    /\ parser = 0 /\ voice = 0
NextGeneration ==
    /\ CallGenerateTest
    /\ UNCHANGED testVars
    /\ UNCHANGED gateVars
    /\ UNCHANGED topicVars
SpecGeneration == InitGeneration /\ [][NextGeneration]_vars

\* ========================================================================
\* Question validator
\* ========================================================================
\* " ".join(words)
RECURSIVE Join(_)
Join(ws) ==
    IF ws = <<>> THEN <<>>
    ELSE IF Len(ws) = 1 THEN ws[1]
    ELSE ws[1] \o <<" ">> \o Join(Tail(ws))

\* str.split(): the maximal runs of non-blank characters, in order
RECURSIVE Split(_)
Split(str) ==
    LET s == LStrip(str) IN
    IF s = <<>> THEN <<>>
    ELSE LET n == IF \E k \in 1..Len(s) : s[k] = " "
                  THEN (CHOOSE k \in 1..Len(s) :
                            s[k] = " " /\ \A j \in 1..(k - 1) : s[j] # " ") - 1
                  ELSE Len(s) IN
         <<SubSeq(s, 1, n)>> \o Split(SubSeq(s, n + 1, Len(s)))

\* set(text.lower().split())
word_set(text) ==
    LET ws == Split(Lower(text)) IN {ws[k] : k \in 1..Len(ws)}

\* Word lists the question texts are written from.
WordLists ==
    {<<<<"e">>, <<"s">>, <<"n">>>>,
     <<<<"E">>, <<"s">>, <<"N">>>>,
     <<<<"e">>, <<"s">>, <<"n">>, <<"o">>>>,
     <<<<"e">>, <<"s">>, <<"o">>, <<"i">>>>,
     <<<<"e">>, <<"o">>, <<"o">>>>,
     <<<<"e">>, <<"s">>>>}

\* Question texts: the words joined by blanks, or padded with blanks.
QuestionTexts ==
    {[words |-> ws, question |-> Join(ws)] : ws \in WordLists}
    \cup {[words |-> ws, question |-> <<" ">> \o Join(ws) \o <<" ", " ">>] :
             ws \in {w \in WordLists : Len(w) = 2}}

\* Choices and answer of a question: four distinct choices, or two of
\* them equal up to case and surrounding blanks.
QuestionOptions ==
    {[choices |-> <<<<"y">>, <<"e">>, <<"s">>, <<"n">>>>, answer |-> <<"e">>],
     [choices |-> <<<<"Y">>, <<"y", " ">>, <<"s">>, <<"n">>>>,
      answer |-> <<"s">>]}

\* The question dicts; words is the word list the text was written from.
Questions ==
    {[words |-> t.words, question |-> t.question,
      choices |-> o.choices, answer |-> o.answer] :
        t \in QuestionTexts, o \in QuestionOptions}

\* QuestionValidator._validate_structure (TRUE: no ValueError)
validate_structure(q) ==
    /\ Len(Strip(q.question)) >= min_question_length
    /\ Len(q.choices) = num_choices
    /\ \A k \in 1..Len(q.choices) : Strip(q.choices[k]) # <<>>
    /\ Strip(q.answer) # <<>>
    /\ \E k \in 1..Len(q.choices) : Strip(q.choices[k]) = Strip(q.answer)

\* QuestionValidator._validate_content (TRUE: no ValueError)
validate_content(q) ==
    Cardinality({Lower(Strip(q.choices[k])) : k \in 1..Len(q.choices)})
        >= num_choices

\* Variant: the new question is compared with the last accepted one only.
check_overlap_last(new_question, previous_questions) ==
    LET new_words == word_set(new_question)
        prev_words == word_set(previous_questions[Len(previous_questions)])
        intersection == new_words \cap prev_words
        union == new_words \cup prev_words IN
    Cardinality(union) > 0 =>
        ~(100 * Cardinality(intersection)
              >= overlap_threshold * Cardinality(union))

\* QuestionValidator._check_overlap (TRUE: no ValueError)
check_overlap(new_question, previous_questions) ==
    LET new_words == word_set(new_question) IN
    \A p \in 1..Len(previous_questions) :
        LET prev_words == word_set(previous_questions[p])
            intersection == new_words \cap prev_words
            union == new_words \cup prev_words IN
        Cardinality(union) > 0 =>
            ~(100 * Cardinality(intersection)
                  >= overlap_threshold * Cardinality(union))

\* QuestionValidator.validate_question
validate_question(q, previous_questions) ==
    /\ validate_structure(q)
    /\ validate_content(q)
    /\ previous_questions # <<>> => check_overlap(q.question, previous_questions)

\* QuestionValidator.validate_all_questions: the loop from position i on.
\* accepted holds the positions of the questions appended to
\* valid_questions.
RECURSIVE validate_all_from(_, _, _, _, _, _)
validate_all_from(qs, i, valid_questions, errors, validated_texts, accepted) ==
    IF i > Len(qs)
    THEN [valid_questions |-> valid_questions, errors |-> errors,
          accepted |-> accepted]
    ELSE IF validate_question(qs[i], validated_texts)
    THEN validate_all_from(qs, i + 1, Append(valid_questions, qs[i]), errors,
                           Append(validated_texts, qs[i].question),
                           accepted \cup {i})
    ELSE validate_all_from(qs, i + 1, valid_questions, Append(errors, i),
                           validated_texts, accepted)

\* Variant: the loop starts at the second question.
validate_all_questions_from_second(qs) ==
    validate_all_from(qs, 2, <<>>, <<>>, <<>>, {})

validate_all_questions(qs) == validate_all_from(qs, 1, <<>>, <<>>, <<>>, {})

ValidatorInit ==
    validator \in
        {[pc |-> "call", questions |-> qs,
          valid_questions |-> <<>>, errors |-> <<>>, accepted |-> {}] :
            qs \in SeqsUpTo(Questions, MaxQuestions)}

ValidateAllQuestions ==
    /\ validator.pc = "call"
    /\ LET res == validate_all_questions(validator.questions) IN
       validator' = [validator EXCEPT
          !.pc = "done", !.valid_questions = res.valid_questions,
          !.errors = res.errors, !.accepted = res.accepted]
    /\ UNCHANGED <<boundary, explorer, generation, parser, voice>>

InitValidator ==
    /\ TestIdle /\ GateIdle /\ TopicIdle
    /\ boundary = 0 /\ explorer = 0 /\ ValidatorInit /\ generation = 0
    /\ parser = 0 /\ voice = 0
NextValidator ==
    /\ ValidateAllQuestions
    /\ UNCHANGED testVars
    /\ UNCHANGED gateVars
    /\ UNCHANGED topicVars
SpecValidator == InitValidator /\ [][NextValidator]_vars

\* ========================================================================
\* Question parser: the answer of a parsed response
\* ========================================================================
\* A JSON value that is not a string (a number, null).
NotAString == <<"<number>">>

\* Option strings of a response, and its lists of four distinct ones.
OptionStrings ==
    {<<"y", "e", "s">>, <<" ", "n", "o">>, <<"s", "o">>, <<"i">>, <<"B">>}
OptionLists ==
    {l \in [1..num_choices -> OptionStrings] :
        \A j \in 1..num_choices : \A k \in 1..num_choices :
            j # k => l[j] # l[k]}

\* Stated answers of a response.
StatedAnswers ==
    {NotAString, <<>>, <<"n", "o">>, <<"n", "o", " ">>, <<"N", "O">>,
     <<"B">>, <<"D">>, <<"s">>, <<"o", "y", "e", "s">>, <<"e", "e">>}

\* "for i, opt in enumerate(options): if answer.lower() in opt.lower() or
\* opt.lower() in answer.lower()": the first such position, 0 if none.
partial_match(answer, options) ==
    LET related == {k \in 1..Len(options) :
                      \/ Contains(Lower(options[k]), Lower(answer))
                      \/ Contains(Lower(answer), Lower(options[k]))} IN
    IF related = {} THEN 0
    ELSE CHOOSE k \in related : \A j \in related : k <= j

\* The letter index of "A".."D" ("ord(answer) - ord('A')"), from 1
letter_index(answer) ==
    CASE answer = <<"A">> -> 1 [] answer = <<"B">> -> 2
      [] answer = <<"C">> -> 3 [] answer = <<"D">> -> 4 [] OTHER -> 0

\* _parse_question_response from "Validate answer is in options" on, for a
\* response with four string options: raised or not, data['Answer'] and
\* data['Options'] of the returned dict.
parse_answer(stated, opts) ==
    IF stated = NotAString
    THEN [raised |-> TRUE, Answer |-> <<>>, Options |-> opts]
    ELSE LET answer == Strip(stated)
             options == [k \in 1..Len(opts) |-> Strip(opts[k])]
             present == \E k \in 1..Len(options) : options[k] = answer IN
         [raised |-> FALSE,
          Options |-> options,
          Answer |->
             IF present THEN stated
             ELSE IF letter_index(answer) # 0
             THEN options[letter_index(answer)]
             ELSE IF partial_match(answer, options) # 0
             THEN options[partial_match(answer, options)]
             ELSE options[1]]

ParserInit ==
    parser \in
        {[pc |-> "call", stated |-> a, opts |-> l,
          raised |-> FALSE, Answer |-> <<>>, Options |-> <<>>] :
            a \in StatedAnswers, l \in OptionLists}

ParseQuestionResponse ==
    /\ parser.pc = "call"
    /\ LET res == parse_answer(parser.stated, parser.opts) IN
       parser' = [parser EXCEPT !.pc = "done", !.raised = res.raised,
                                !.Answer = res.Answer, !.Options = res.Options]
    /\ UNCHANGED <<boundary, explorer, validator, generation, voice>>

\* AudioSynthesizer.select_voice: "voice_ids: List[str] = None"
NoVoiceIds == <<"<None>">>

\* language_config.tts_voice_ids values
VoiceIds == {"alloy", "nova", "en-US-AvaMultilingualNeural"}

\* select_voice: default_voices
default_voices ==
    {"en-US-AvaMultilingualNeural", "en-US-AndrewMultilingualNeural",
     "en-US-BrianMultilingualNeural", "en-US-EmmaMultilingualNeural"}

\* Variant: the default voices are candidates next to the supplied ones.
select_voice_with_defaults(voice_ids) ==
    IF voice_ids = NoVoiceIds THEN default_voices
    ELSE {voice_ids[k] : k \in 1..Len(voice_ids)} \cup default_voices

\* AudioSynthesizer.select_voice: the voices random.choice can return
select_voice(voice_ids) ==
    IF voice_ids # NoVoiceIds /\ Len(voice_ids) > 0
    THEN {voice_ids[k] : k \in 1..Len(voice_ids)}
    ELSE default_voices

VoiceInit ==
    voice \in {[pc |-> "call", voice_ids |-> ids, selected |-> ""] :
                 ids \in {NoVoiceIds} \cup SeqsUpTo(VoiceIds, MaxVoices)}

SelectVoice ==
    /\ voice.pc = "call"
    /\ \E v \in select_voice(voice.voice_ids) :
         voice' = [voice EXCEPT !.pc = "done", !.selected = v]
    /\ UNCHANGED <<boundary, explorer, validator, generation, parser>>

InitParser ==
    /\ TestIdle /\ GateIdle /\ TopicIdle
    /\ boundary = 0 /\ explorer = 0 /\ validator = 0 /\ generation = 0
    /\ ParserInit /\ voice = 0
NextParser ==
    /\ ParseQuestionResponse
    /\ UNCHANGED testVars
    /\ UNCHANGED gateVars
    /\ UNCHANGED topicVars
SpecParser == InitParser /\ [][NextParser]_vars

InitVoice ==
    /\ TestIdle /\ GateIdle /\ TopicIdle
    /\ boundary = 0 /\ explorer = 0 /\ validator = 0 /\ generation = 0
    /\ parser = 0 /\ VoiceInit
NextVoice ==
    /\ SelectVoice
    /\ UNCHANGED testVars
    /\ UNCHANGED gateVars
    /\ UNCHANGED topicVars
SpecVoice == InitVoice /\ [][NextVoice]_vars

\* ========================================================================
\* Properties of the test orchestrator
\* ========================================================================

Status(i) == production_queue[i].status
Succeeded(o) == {d \in DiffPos : o.outcome[d] = "ok"}
RowsOf(r, i, d) ==
    {t \in tests \cup questions \cup test_skill_ratings :
        t.run = r /\ t.item = i /\ t.difficulty = target_difficulties[d]}

AllowedTransition(a, b) ==
    \/ a = b
    \/ <<a, b>> \in {<<"pending", "processing">>,
                     <<"processing", "active">>,
                     <<"processing", "rejected">>}

\* C1: a queue item's status changes only along pending->processing,
\* processing->active and processing->rejected.
C1_StatusTransitions ==
    [][\A i \in Items :
          AllowedTransition(production_queue[i].status,
                            production_queue'[i].status)]_vars

\* C2: no queue item is moved to processing by two overlapping run()
\* executions: the pending->processing update succeeds for at most one.
C2_SingleClaim ==
    \A i \in Items :
        Cardinality({r \in claimed[i] : orch[r].mode = "run"}) <= 1

\* C3: an item whose status is active has tests_generated >= 1 (an item
\* with no successful difficulty is rejected with an error log).
C3_ActiveHasTests ==
    \A i \in Items :
        Status(i) = "active" => production_queue[i].tests_generated >= 1

\* C4: every configured target difficulty is attempted exactly once per
\* processed item, whatever was raised at the other difficulties: inside
\* the loop the difficulties before the current one have been attempted
\* once and the others not yet, and after the loop all have, once.
C4_EveryDifficultyOnce ==
    \A r \in Runs :
        /\ orch[r].pc = "difficulty" =>
              \A d \in DiffPos :
                  orch[r].attempts[d] = IF d < orch[r].dpos THEN 1 ELSE 0
        /\ orch[r].pc = "complete" =>
              \A d \in DiffPos : orch[r].attempts[d] = 1

\* C4 witness: the loop is over, an early difficulty raised and a later
\* one was still attempted.
C4_Witness ==
    \E r \in Runs :
        /\ orch[r].pc = "complete"
        /\ orch[r].outcome[1] \in {"raised", "audio_failed"}
        /\ orch[r].attempts[Len(target_difficulties)] = 1

\* C5: when run() has returned, every item of the fetched batch has been
\* attempted (its _process_queue_item was entered).
C5_BatchAttempted ==
    \A r \in Runs :
        (orch[r].pc = "done" /\ orch[r].mode = "run") =>
            \A k \in 1..Len(orch[r].batch) :
                orch[r].batch[k] \in orch[r].entered

\* C6: in non-dry-run mode a difficulty whose audio call failed on all
\* attempts has no test, question or rating row; every persisted test row
\* was written after a successful audio call; and the count written by
\* mark_queue_completed is the number of difficulties that succeeded.
C6_AudioBeforePersist ==
    /\ [](\A r \in Runs : \A d \in DiffPos :
            (~orch[r].dry_run /\ orch[r].pc \in {"difficulty", "complete"}
                /\ orch[r].outcome[d] = "audio_failed")
              => RowsOf(r, Item(r), d) = {})
    /\ [](\A t \in tests : t.audio = "ok")
    /\ [][\A r \in Runs :
            (orch[r].pc = "complete" /\ ~orch[r].dry_run
                /\ production_queue'[Item(r)] # production_queue[Item(r)])
              => /\ production_queue'[Item(r)].status = "active"
                 /\ production_queue'[Item(r)].tests_generated
                      = Cardinality(Succeeded(orch[r]))]_vars

\* C6 witness: a non-dry run has marked its last item active after a
\* difficulty whose audio call failed on every attempt; nothing was
\* persisted for it.
C6_Witness ==
    \E r \in Runs :
        /\ orch[r].pc = "finalize"
        /\ ~orch[r].dry_run
        /\ \E d \in DiffPos : orch[r].outcome[d] = "audio_failed"
        /\ Status(Item(r)) = "active"
        /\ production_queue[Item(r)].tests_generated
              = Cardinality(Succeeded(orch[r]))
        /\ tests = {}

\* ========================================================================
\* Properties of the Gatekeeper
\* ========================================================================
Normalised(response) == Strip(Lower(response))

\* C7 (as stated): for a candidate every language rejects, exactly
\* short_circuit_threshold languages are evaluated and the result is empty.
C7_ExactlyThreshold ==
    (gate.pc = "done" /\ gate.rejected = gate.evaluated)
        => (gate.evaluated = gate.threshold /\ gate.approved = <<>>)

\* C7 (amended): for a candidate every evaluated language rejects, exactly
\* min(short_circuit_threshold, |languages|) languages are evaluated and
\* the result is empty.
C7_MinThresholdLanguages ==
    (gate.pc = "done" /\ gate.rejected = gate.evaluated)
        => (gate.evaluated = Min(gate.threshold, gate.languages)
            /\ gate.approved = <<>>)

\* C7 witness: more languages than the threshold, all evaluated ones
\* rejected, the call returned after exactly threshold evaluations.
C7_Witness ==
    /\ gate.pc = "done"
    /\ gate.threshold >= 1
    /\ gate.languages > gate.threshold
    /\ gate.rejected = gate.evaluated
    /\ gate.evaluated = gate.threshold

\* C8 (as stated): languages evaluated <= approved + threshold.
C8_ApprovedPlusThreshold ==
    gate.evaluated <= Len(gate.approved) + gate.threshold

\* C8 (amended): languages evaluated <= (approved + 1) * threshold, and
\* never more than the number of languages.
C8_ApprovedTimesThreshold ==
    /\ gate.evaluated <= (Len(gate.approved) + 1) * gate.threshold
    /\ gate.evaluated <= gate.languages

\* C8 witness: an approval between rejections reset the counter and the
\* call evaluated more than approved + threshold languages.
C8_Witness ==
    /\ gate.pc = "done"
    /\ Len(gate.approved) >= 1
    /\ gate.evaluated > Len(gate.approved) + gate.threshold
    /\ gate.evaluated = (Len(gate.approved) + 1) * gate.threshold

\* C9 (as stated): a language is approved only when the trimmed,
\* lower-cased response starts with "yes"; everything else is a rejection.
C9_ApprovedIffStartsYes ==
    gate.last.evaluated =>
        (gate.last.approved <=>
            (~gate.last.failed
             /\ StartsWith(Normalised(gate.last.response), Str_yes)))

\* C9 (amended): a language is approved exactly when the call returned and
\* the trimmed, lower-cased response starts with "yes", or does not start
\* with "no" and contains "yes" and no "no"; every other response and a
\* failed call are rejections, and each rejection advances the
\* consecutive-rejection counter by one.
C9_FailClosed ==
    /\ [](gate.last.evaluated =>
            (gate.last.approved <=>
                (/\ ~gate.last.failed
                 /\ \/ StartsWith(Normalised(gate.last.response), Str_yes)
                    \/ /\ ~StartsWith(Normalised(gate.last.response), Str_no)
                       /\ Contains(Normalised(gate.last.response), Str_yes)
                       /\ ~Contains(Normalised(gate.last.response), Str_no))))
    /\ [][(gate'.evaluated = gate.evaluated + 1 /\ ~gate'.last.approved)
            => /\ gate'.consecutive_rejections
                    = gate.consecutive_rejections + 1
               /\ gate'.rejection_count = gate.rejection_count + 1]_vars

\* C9 witness: a response that does not start with "yes" was approved
\* (it contains "yes" and no "no").
C9_Witness ==
    /\ gate.last.evaluated
    /\ gate.last.approved
    /\ ~StartsWith(Normalised(gate.last.response), Str_yes)

\* ========================================================================
\* Properties of the topic store
\* ========================================================================

\* C10: no two topics of the same category have signature embeddings with
\* cosine similarity >= the threshold.
C10_NoSimilarPair ==
    \A a \in topics : \A b \in topics :
        (a.id # b.id /\ a.category_id = b.category_id)
            => ~cosine_at_least(a.embedding, b.embedding, similarity_threshold)

\* run() returned through its normal path (not through the except clause).
RunCompleted(o) == o.pc = "done" /\ o.finalize_category # 0
NotNovel(o) == {k \in CandidatePos : o.novelty[k] = "not_novel"}
ApprovedTopics(o) == {k \in CandidatePos : \E l \in Languages : <<k, l>> \in o.approvals}
QueueRowsOf(r) == {q \in topic_queue : q.run = r}
TopicRowsOf(r, k) == {t \in topics : t.run = r /\ t.cand = k}

\* C11: a candidate the Archivist reports as not novel gets no Topic row,
\* no queue row and no Gatekeeper call; topics_rejected_similarity counts
\* exactly these candidates; and the step that rejects it leaves the store
\* alone, adds one to the counter and goes on with the next candidate.
C11_NotNovelSkipped ==
    /\ [](\A r \in TopicRuns : \A k \in NotNovel(torch[r]) :
            /\ TopicRowsOf(r, k) = {}
            /\ k \notin torch[r].gated
            /\ \A l \in Languages : <<k, l>> \notin torch[r].approvals)
    /\ [](\A r \in TopicRuns : \A q \in QueueRowsOf(r) :
            \E t \in topics : /\ t.id = q.topic_id
                               /\ t.run = r
                               /\ torch[r].novelty[t.cand] = "novel")
    /\ [](\A r \in TopicRuns :
            torch[r].topics_rejected_similarity
                = Cardinality(NotNovel(torch[r])))
    /\ [][\A r \in TopicRuns :
            NotNovel(torch'[r]) # NotNovel(torch[r])
              => /\ topics' = topics
                 /\ topic_queue' = topic_queue
                 /\ torch'[r].queue_items = torch[r].queue_items
                 /\ torch'[r].topics_rejected_similarity
                        = torch[r].topics_rejected_similarity + 1
                 /\ IF torch[r].ci < torch[r].candidates
                    THEN /\ torch'[r].pc = "candidate"
                         /\ torch'[r].ci = torch[r].ci + 1
                    ELSE torch'[r].pc = "queue"]_vars

\* C11 witness: a run that stored a topic, then rejected a candidate as not
\* novel and went on to examine the candidate after it.
C11_Witness ==
    \E r \in TopicRuns : \E k \in CandidatePos :
        /\ torch[r].pc = "done"
        /\ k > 1 /\ k < torch[r].candidates
        /\ TopicRowsOf(r, k - 1) # {}
        /\ torch[r].novelty[k] = "not_novel"
        /\ torch[r].novelty[k + 1] = "novel"

\* C12: after a completed non-dry run the queue rows it inserted are
\* exactly one pending row per (approved topic, approving language): as
\* many rows as approvals, each of an approval, none for another language.
C12_QueueRowsAreApprovals ==
    \A r \in TopicRuns :
        (RunCompleted(torch[r]) /\ ~torch[r].dry_run) =>
            /\ Cardinality(QueueRowsOf(r)) = Cardinality(torch[r].approvals)
            /\ \A q \in QueueRowsOf(r) :
                  /\ q.status = "pending"
                  /\ \E t \in topics :
                        /\ t.id = q.topic_id /\ t.run = r
                        /\ <<t.cand, q.language_id>> \in torch[r].approvals
            /\ \A a \in torch[r].approvals :
                  \E q \in QueueRowsOf(r) : \E t \in TopicRowsOf(r, a[1]) :
                        q.topic_id = t.id /\ q.language_id = a[2]

\* C12 witness: a completed non-dry run with two approved topics, one of
\* them rejected by a language and not evaluated by another.
C12_Witness ==
    \E r \in TopicRuns :
        /\ RunCompleted(torch[r]) /\ ~torch[r].dry_run
        /\ Cardinality(ApprovedTopics(torch[r])) >= 2
        /\ Cardinality(QueueRowsOf(r)) >= 3
        /\ \E k \in ApprovedTopics(torch[r]) :
              Cardinality({l \in Languages : <<k, l>> \in torch[r].approvals})
                  < NumLanguages - 1

\* The sum of the approved counts of the completed non-dry runs 1..n that
\* worked on category c.
RECURSIVE ApprovedSum(_, _)
ApprovedSum(c, n) ==
    IF n = 0 THEN 0
    ELSE ApprovedSum(c, n - 1)
         + (IF /\ RunCompleted(torch[n]) /\ ~torch[n].dry_run
               /\ torch[n].category = c
            THEN torch[n].approved_count ELSE 0)

\* C13: when every run has returned, each category's total-topics counter
\* is the sum of the approved counts of the completed non-dry runs on it.
C13_NoLostIncrement ==
    (\A r \in TopicRuns : torch[r].pc = "done") =>
        \A c \in Categories :
            categories[c].total_topics_generated = ApprovedSum(c, NumTopicRuns)

ApprovedBefore(o, k) == {j \in ApprovedTopics(o) : j < k}
Examined(o) == {k \in CandidatePos : o.novelty[k] # "none"}

\* C14: candidates are examined in the Explorer's order (the examined ones
\* are a prefix and the position only moves forward by one), the approved
\* topics never exceed the daily quota, and a candidate that comes after
\* the quota was reached is not examined: no embedding call, no topic
\* insert, no Gatekeeper call for it.
C14_QuotaStopsLoop ==
    /\ [](\A r \in TopicRuns :
            /\ torch[r].approved_count <= daily_topic_quota
            /\ Cardinality(ApprovedTopics(torch[r])) <= daily_topic_quota
            /\ \A k \in Examined(torch[r]) :
                  \A j \in 1..(k - 1) : j \in Examined(torch[r])
            /\ \A k \in CandidatePos :
                  Cardinality(ApprovedBefore(torch[r], k)) >= daily_topic_quota
                    => /\ k \notin Examined(torch[r])
                       /\ k \notin torch[r].gated
                       /\ TopicRowsOf(r, k) = {})
    /\ [][\A r \in TopicRuns :
            torch[r].ci > 0 => torch'[r].ci \in {torch[r].ci, torch[r].ci + 1}]_vars

\* C14 witness: a completed run that approved as many topics as the quota
\* and left a later candidate of the Explorer unexamined.
C14_Witness ==
    \E r \in TopicRuns :
        /\ RunCompleted(torch[r])
        /\ torch[r].approved_count = daily_topic_quota
        /\ \E k \in 1..torch[r].candidates : k \notin Examined(torch[r])

InCooldown(cat, t) ==
    cat.last_used_at # Never /\ t < cat.last_used_at + cooldown_days

\* C16: the category a run selects is not inside its cooldown window at
\* the time of the selection, and with every category inside its window
\* the selector returns none (the run ends without a category).
C16_CooldownRespected ==
    [][\A r \in TopicRuns :
         (torch[r].pc = "idle" /\ torch'[r].pc # "idle") =>
            /\ torch'[r].pc = "explore" =>
                  ~InCooldown(categories[torch'[r].category], now)
            /\ (\A c \in Categories : InCooldown(categories[c], now)) =>
                  (torch'[r].pc = "finalize" /\ torch'[r].category = 0)]_vars

\* C16 witness: a run selected a category while another one was inside
\* its cooldown window.
C16_Witness ==
    \E r \in TopicRuns : \E d \in Categories :
        /\ torch[r].pc = "explore"
        /\ d # torch[r].category
        /\ InCooldown(categories[d], now)

\* C17: every boundary call is retried up to 3 attempts: it returns when
\* it fails fewer than 3 times, and re-raises after exactly 3 attempts
\* otherwise.
C17_ThreeAttempts ==
    /\ boundary.state = "returned" => boundary.fails < stop_after_attempt
    /\ boundary.state = "raised" =>
          /\ boundary.fails >= stop_after_attempt
          /\ boundary.attempts = stop_after_attempt
    /\ boundary.attempts <= stop_after_attempt

\* C18: generate_candidates never raises; a failed call or an unparsable
\* response gives the empty list; otherwise at most num_candidates
\* candidates are returned, each with a concept of at least 10 characters
\* and a non-empty lens.
C18_NeverRaisesValidCandidates ==
    explorer.pc = "done" =>
        /\ ~explorer.raised
        /\ (~RetryCall(explorer.llm_fails) \/ ~explorer.parsed)
              => explorer.candidates = <<>>
        /\ Len(explorer.candidates) <= explorer.num_candidates
        /\ \A k \in 1..Len(explorer.candidates) :
              /\ Len(explorer.candidates[k].concept) >= min_concept_length
              /\ explorer.candidates[k].lens_code # <<>>

\* C19: with fewer than 3 valid questions _generate_test fails without an
\* audio synthesis call and without a test, question or rating row; a call
\* that persisted a test row had between 3 and 5 valid questions.
C19_TooFewQuestionsAbortsEarly ==
    generation.pc = "done" =>
        /\ generation.n_valid < min_valid_questions =>
              /\ ~generation.success
              /\ generation.audio = "none"
              /\ generation.rows = {}
        /\ generation.rows # {} =>
              /\ generation.n_valid >= min_valid_questions
              /\ generation.n_valid <= questions_per_test

\* C19 witness: a live call with generated prose and two valid questions
\* has ended.
C19_Witness ==
    /\ generation.pc = "done"
    /\ ~generation.dry_run
    /\ generation.prose_ok
    /\ generation.n_valid = min_valid_questions - 1
    /\ ~generation.success

\* The lower-cased tokens of a question, from the words it was written from.
TokenSet(q) == {Lower(q.words[k]) : k \in 1..Len(q.words)}
\* Jaccard similarity of two token sets below 0.65
JaccardBelow(A, B) ==
    100 * Cardinality(A \cap B) < overlap_threshold * Cardinality(A \cup B)
\* A question that passes the structure checks: text, four non-empty
\* unique choices, answer among them.
StructurallyValid(q) == validate_structure(q) /\ validate_content(q)

\* C20: validate_all_questions accepts a structurally valid question if
\* and only if the Jaccard similarity of its lower-cased token set with
\* that of every previously accepted question of the list is below 0.65;
\* no two accepted questions have a similarity of 0.65 or more.
C20_AcceptsIffBelowThreshold ==
    validator.pc = "done" =>
        LET qs == validator.questions
            acc == validator.accepted IN
        /\ \A k \in 1..Len(qs) :
              StructurallyValid(qs[k]) =>
                 (k \in acc <=>
                    \A j \in acc :
                       j < k => JaccardBelow(TokenSet(qs[k]), TokenSet(qs[j])))
        /\ \A j \in acc : \A k \in acc :
              j # k => JaccardBelow(TokenSet(qs[j]), TokenSet(qs[k]))
        /\ Len(validator.valid_questions) = Cardinality(acc)

\* C20 witness: a structurally valid question was rejected for its
\* overlap with the first question although the question accepted just
\* before it is not similar to it.
C20_Witness ==
    /\ validator.pc = "done"
    /\ Len(validator.questions) = 3
    /\ validator.accepted = {1, 2}
    /\ StructurallyValid(validator.questions[3])
    /\ JaccardBelow(TokenSet(validator.questions[3]),
                    TokenSet(validator.questions[2]))

\* C21: validating the list of questions that validate_all_questions
\* accepted accepts all of them again, in the same order, with no error.
C21_ValidationIdempotent ==
    validator.pc = "done" =>
        LET again == validate_all_questions(validator.valid_questions) IN
        /\ again.valid_questions = validator.valid_questions
        /\ again.errors = <<>>

\* C21 witness: a call accepted two questions and rejected one.
C21_Witness ==
    /\ validator.pc = "done"
    /\ Len(validator.valid_questions) = 2
    /\ Len(validator.errors) = 1

\* C22: for a response with four options the parser does not discard the
\* question because of its answer: the returned Answer is verbatim one of
\* the four returned Options, and the answer test of _validate_structure
\* (non-empty after strip, among the stripped choices) accepts it.
C22_AnswerAmongOptions ==
    parser.pc = "done" =>
        /\ ~parser.raised
        /\ \E k \in 1..Len(parser.Options) :
              parser.Answer = parser.Options[k]
        /\ Strip(parser.Answer) # <<>>
        /\ \E k \in 1..Len(parser.Options) :
              Strip(parser.Options[k]) = Strip(parser.Answer)

\* A run that ended through the except clause of run() for another reason
\* than the lack of an eligible category.
HardFailure(o) ==
    o.pc = "done" /\ o.finalize_category = 0 /\ o.selection # "no_category"
\* A run that completed without exception below the quota.
QuotaNotMet(o) ==
    o.pc = "done" /\ o.finalize_category # 0
        /\ o.topics_generated < daily_topic_quota

\* C23: a topic run in which an exception occurred never exits with the
\* code of a run that completed without exception below the quota, and
\* neither exits with the success code 0.
C23_FailureDistinctFromQuotaNotMet ==
    \A r1 \in TopicRuns : \A r2 \in TopicRuns :
        (HardFailure(torch[r1]) /\ QuotaNotMet(torch[r2])) =>
            /\ torch[r1].exit_code # torch[r2].exit_code
            /\ torch[r1].exit_code # 0
            /\ torch[r2].exit_code # 0

\* C24: a run that found no eligible category called neither the
\* Explorer nor the embedding service nor the Gatekeeper, left the topic,
\* queue and category rows alone, recorded no error, and main exits
\* with 0.
C24_NoCategoryBenign ==
    \A r \in TopicRuns :
        (torch[r].pc = "done" /\ torch[r].selection = "no_category") =>
            /\ ~torch[r].explored
            /\ \A k \in CandidatePos : torch[r].novelty[k] = "none"
            /\ torch[r].gated = {}
            /\ topics = {} /\ topic_queue = {}
            /\ \A c \in Categories :
                  categories[c].total_topics_generated = 0
            /\ ~torch[r].error_message
            /\ torch[r].exit_code = 0

TestsOf(i, d) ==
    {t \in tests : t.item = i /\ t.difficulty = target_difficulties[d]}

C27_ApprovedTopicsQueuedAfterCrash ==
    \A r \in TopicRuns :
        (torch[r].pc = "done" /\ torch[r].finalize_category = 0
            /\ ~torch[r].dry_run) =>
          \A a \in torch[r].approvals :
             \A t \in TopicRowsOf(r, a[1]) :
                \E q \in QueueRowsOf(r) :
                    q.topic_id = t.id /\ q.language_id = a[2]

\* A run between its category selection and _finalize.
WorksOnCategory(o) == o.category # 0 /\ o.pc \notin {"idle", "finalize", "done"}

\* C28: two overlapping runs never work on the same category.
C28_NoSharedCategory ==
    \A r1 \in TopicRuns : \A r2 \in TopicRuns :
        (r1 # r2 /\ WorksOnCategory(torch[r1]) /\ WorksOnCategory(torch[r2]))
            => torch[r1].category # torch[r2].category

C30_VoiceFromAllowedSet ==
    /\ voice.pc = "call" => select_voice(voice.voice_ids) # {}
    /\ voice.pc = "done" =>
          IF voice.voice_ids # NoVoiceIds /\ voice.voice_ids # <<>>
          THEN \E k \in 1..Len(voice.voice_ids) :
                  voice.selected = voice.voice_ids[k]
          ELSE voice.selected \in default_voices

\* C30 witness: a voice was selected from a list of two different
\* voices that are not default voices.
C30_Witness ==
    /\ voice.pc = "done"
    /\ voice.voice_ids = <<"alloy", "nova">>
    /\ voice.selected = "nova"

\* C31: when the explorer or the gatekeeper prompt template is missing the
\* run aborts before the Explorer is called: no Explorer, embedding or
\* Gatekeeper call is made, no topic and no queue row is inserted, the
\* categories keep their last-used time and their counter from the start
\* of the run on, and the metrics of the run carry the error message.
C31_MissingPromptAborts ==
    [][/\ (torch'[1].pc \in {"idle", "explore"}
            \/ torch'[1].prompts = "missing") => categories' = categories
       /\ torch'[1].prompts = "missing" =>
            /\ torch'[1].pc \in {"finalize", "done"}
            /\ ~torch'[1].explored
            /\ \A k \in CandidatePos : torch'[1].novelty[k] = "none"
            /\ torch'[1].gated = {}
            /\ topics' = {}
            /\ topic_queue' = {}
            /\ torch'[1].error_message
            /\ torch'[1].pc = "done" =>
                  /\ torch'[1].exit_code = 2
                  /\ torch'[1].dry_run \/ torch'[1].metrics_insert # "none"
      ]_vars

\* C31 witness: a live run that found a template missing has ended and its
\* metrics row, with the error message, is stored.
C31_Witness ==
    /\ torch[1].prompts = "missing"
    /\ torch[1].pc = "done"
    /\ ~torch[1].dry_run
    /\ torch[1].metrics_insert = "ok"
    /\ torch[1].error_message

\* C32: when a non-dry run() has returned, every queue item of the batch
\* it fetched is active or rejected: none is left pending or processing.
C32_BatchSettledAtReturn ==
    \A r \in Runs :
        (orch[r].pc = "done" /\ orch[r].mode = "run" /\ ~orch[r].dry_run) =>
            \A k \in 1..Len(orch[r].batch) :
                Status(orch[r].batch[k]) \in {"active", "rejected"}

PendingActive(i) ==
    /\ production_queue[i].status = "pending"
    /\ production_queue[i].language_active

\* C33: the batch a run fetches has at most batch_size items, each pending
\* and of an active language at the time of the fetch, in ascending
\* creation order; a pending item of an active language that is left out
\* is younger than every item of the batch; and the run processes no item
\* outside its batch.
C33_OldestPendingFirst ==
    [][/\ (orch[1].pc = "idle" /\ orch'[1].mode = "run"
           /\ orch'[1].pc # "idle") =>
            LET b == orch'[1].batch IN
            /\ Len(b) <= orch[1].batch_size
            /\ orch[1].batch_size <= batch_size
            /\ \A k \in 1..Len(b) : PendingActive(b[k])
            /\ \A k \in 1..Len(b), l \in 1..Len(b) : k < l => b[k] < b[l]
            /\ \A i \in Items :
                  (PendingActive(i) /\ \A k \in 1..Len(b) : b[k] # i) =>
                      \A k \in 1..Len(b) : b[k] < i
       /\ orch'[1].mode = "run" =>
            orch'[1].entered \subseteq
                {orch'[1].batch[k] : k \in 1..Len(orch'[1].batch)}
      ]_vars

\* C33 witness: the older item belongs to an inactive language, the
\* run fetched the younger one and has entered its processing.
C33_Witness ==
    /\ orch[1].mode = "run"
    /\ orch[1].batch = <<2>>
    /\ orch[1].entered = {2}
    /\ ~production_queue[1].language_active
    /\ production_queue[1].status = "pending"

\* C34: a non-dry run that selected a category and ended without an error
\* has set the last-used time of that category, also when the Explorer
\* returned no candidates or no topic was approved.
C34_CompletedRunMarksCategory ==
    (/\ torch[1].pc = "done"
     /\ ~torch[1].dry_run
     /\ torch[1].selection = "ok"
     /\ ~torch[1].error_message) =>
        categories[torch[1].category].last_used_at # Never

\* The candidates the Gatekeeper examined and no language approved.
RejectedByAll(o) ==
    {k \in o.gated : \A l \in Languages : <<k, l>> \notin o.approvals}

\* C35: topics_rejected_gatekeeper is the number of candidates that
\* passed the novelty check and were approved by no language, and the
\* approved candidates, the similarity rejections and the gatekeeper
\* rejections together never exceed candidates_proposed.
C35_GatekeeperRejectionsCountCandidates ==
    /\ torch[1].topics_rejected_gatekeeper =
          Cardinality(RejectedByAll(torch[1]))
    /\ torch[1].approved_count + torch[1].topics_rejected_similarity
          + torch[1].topics_rejected_gatekeeper
          <= torch[1].candidates_proposed

\* C36: the queue changes only in the one batch-insert step of a run, taken
\* after the candidate loop has ended and when the run has inserted nothing
\* before, and the (topic, language) pairs inserted are pairwise distinct.
C36_DistinctPairsOneInsert ==
    [][topic_queue' # topic_queue =>
          /\ torch[1].pc = "queue"
          /\ torch'[1].pc = "usage"
          /\ QueueRowsOf(1) = {}
          /\ topic_queue' \ topic_queue
                = batch_insert_queue(torch[1].queue_items, 1)
          /\ \A a \in topic_queue', b \in topic_queue' :
                (a.run = 1 /\ b.run = 1 /\ a.pos # b.pos) =>
                    <<a.topic_id, a.language_id>> # <<b.topic_id, b.language_id>>
      ]_vars

\* C36 witness: the run has queued two topics for the same language.
C36_Witness ==
    \E a \in topic_queue, b \in topic_queue :
        /\ a.run = 1 /\ b.run = 1
        /\ a.topic_id # b.topic_id
        /\ a.language_id = b.language_id

\* A topic whose candidate the Gatekeeper examined and no language
\* approved, in this execution or in an earlier one.
Orphan(t) ==
    \/ t.run = 0
    \/ t.run = 1 /\ t.cand \in RejectedByAll(torch[1])

BatchOf(o) == {o.batch[k] : k \in 1..Len(o.batch)}

\* C38: run() never fetches an item that is in processing, and an item in
\* processing that is not in the batch of the run keeps its queue row
\* unchanged, is not processed and gets no test.
C38_ProcessingNeverPickedUp ==
    [][orch'[1].mode = "run" =>
          /\ orch[1].pc = "idle" =>
                \A i \in BatchOf(orch'[1]) : Status(i) # "processing"
          /\ \A i \in Items :
                (Status(i) = "processing" /\ i \notin BatchOf(orch'[1])) =>
                    /\ production_queue'[i] = production_queue[i]
                    /\ i \notin orch'[1].entered
                    /\ \A t \in tests' \cup questions' \cup test_skill_ratings' :
                          t.item # i
      ]_vars

\* C38 witness: item 1 was in processing when the run started; the run
\* fetched and settled item 2 and has returned, item 1 is still in
\* processing.
C38_Witness ==
    /\ orch[1].mode = "run"
    /\ orch[1].pc = "done"
    /\ orch[1].batch = <<2>>
    /\ Status(2) \in {"active", "rejected"}
    /\ Status(1) = "processing"
    /\ production_queue[1].language_active

\* C39: no step of a dry-run execution changes the queue, the tests, the
\* questions, the skill ratings or the run metrics table, and none
\* attempts audio synthesis; fetched items stay pending.
C39_DryRunMutatesNothing ==
    [][orch[1].dry_run =>
          /\ production_queue' = production_queue
          /\ tests' = tests
          /\ questions' = questions
          /\ test_skill_ratings' = test_skill_ratings
          /\ test_generation_runs' = test_generation_runs
          /\ claimed' = claimed
          /\ \A d \in DiffPos : orch'[1].outcome[d] # "audio_failed"
          /\ \A i \in BatchOf(orch'[1]) : Status(i)' = "pending"
      ]_vars

\* C39 witness: a dry run has returned after two items; the processing
\* of the first raised, the second went through prose and question
\* generation for every difficulty, and both are still pending.
C39_Witness ==
    /\ orch[1].dry_run
    /\ orch[1].mode = "run"
    /\ orch[1].pc = "done"
    /\ orch[1].batch = <<1, 2>>
    /\ orch[1].tests_failed = 1
    /\ orch[1].queue_items_processed = 1
    /\ \A d \in DiffPos : orch[1].outcome[d] = "ok"
    /\ \A i \in Items : Status(i) = "pending"
    /\ test_generation_runs = 0

====
